---- MODULE Spec2Model ----
(***************************************************************************)
(* Streaming response ingestion and recovery pipeline of the ComfyUI       *)
(* workflow generator: the NDJSON stream consumer generateWorkflowLocal    *)
(* with its extractor extractJson (src/unnamed/part_001), the brace scan   *)
(* of extractContentFromText and the marker-based generateWorkflowLocal    *)
(* (src/services/localLlmService.ts), the non-streaming sibling            *)
(* validateAndCorrectWorkflowLocal, the retry wrapper callWithRetry        *)
(* (src/services/geminiService.ts) and the execution relay executeWorkflow *)
(* (src/services/comfyuiService.ts).                                       *)
(*                                                                         *)
(* A JavaScript string is a sequence of one-character strings.  Indices    *)
(* into a string are 0-based, as in the source; -1 is "not found".         *)
(***************************************************************************)
EXTENDS Integers, Sequences, FiniteSets, TLC

(***************************************************************************)
(* String primitives of String.prototype, computed character by character  *)
(***************************************************************************)

\* White space removed by String.prototype.trim (the part of it the alphabet has).
JsWhite == {" ", "\n", "\r", "\t"}

\* s.substring(a, b) for 0 <= a <= b <= s.length
Substring(s, a, b) == SubSeq(s, a + 1, b)

\* s.startsWith(p, i)
StartsWithAt(s, p, i) ==
  /\ i >= 0
  /\ i + Len(p) <= Len(s)
  /\ SubSeq(s, i + 1, i + Len(p)) = p

Min(S) == CHOOSE i \in S : \A j \in S : i <= j
Max(S) == CHOOSE i \in S : \A j \in S : i >= j

\* s.indexOf(p, i): the least index from i on at which p occurs
IndexFrom(s, p, i) ==
  LET hits == {j \in i..(Len(s) - Len(p)) : StartsWithAt(s, p, j)}
  IN  IF hits = {} THEN -1 ELSE Min(hits)

\* s.indexOf(p)
IndexOf(s, p) == IndexFrom(s, p, 0)

\* s.lastIndexOf(p)
LastIndexOf(s, p) ==
  LET hits == {j \in 0..(Len(s) - Len(p)) : StartsWithAt(s, p, j)}
  IN  IF hits = {} THEN -1 ELSE Max(hits)

\* s.includes(p)
Includes(s, p) == IndexOf(s, p) > -1

\* the positions of s that hold no white space
NonWhite(s) == {i \in 1..Len(s) : s[i] \notin JsWhite}

\* s.trim()
Trim(s) ==
  IF NonWhite(s) = {} THEN <<>> ELSE SubSeq(s, Min(NonWhite(s)), Max(NonWhite(s)))

\* s.replace(p, r) with a string pattern: the first occurrence only
Replace(s, p, r) ==
  LET i == IndexOf(s, p)
  IN  IF i = -1 THEN s
      ELSE Substring(s, 0, i) \o r \o Substring(s, i + Len(p), Len(s))

\* s.replace(/p/g, ''): every occurrence, left to right, without rescanning
RECURSIVE RemoveAll(_, _)
RemoveAll(s, p) ==
  LET i == IndexOf(s, p)
  IN  IF i = -1 THEN s
      ELSE Substring(s, 0, i) \o RemoveAll(Substring(s, i + Len(p), Len(s)), p)

\* s.split(sep) with a non-empty string separator
RECURSIVE Split(_, _)
Split(s, sep) ==
  LET i == IndexOf(s, sep)
  IN  IF i = -1 THEN <<s>>
      ELSE <<Substring(s, 0, i)>> \o Split(Substring(s, i + Len(sep), Len(s)), sep)

\* buffer.split(/\r?\n/): a line ends at "\n", which takes a "\r" right before it
RECURSIVE SplitLines(_)
SplitLines(s) ==
  LET i == IndexOf(s, <<"\n">>)
  IN  IF i = -1 THEN <<s>>
      ELSE LET e == IF i > 0 /\ s[i] = "\r" THEN i - 1 ELSE i
           IN  <<Substring(s, 0, e)>> \o SplitLines(Substring(s, i + 1, Len(s)))

(***************************************************************************)
(* JSON values and JSON.parse                                              *)
(*                                                                         *)
(* A value is a record of one shape for every type, so that any two values *)
(* can be compared: t is the type, s the characters of a string or of a    *)
(* number literal, a the elements of an array, o the members of an object  *)
(* as a set of <<key, value>> pairs (member order is not observable in     *)
(* the properties checked).  "undefined" is what reading an absent         *)
(* property gives.                                                         *)
(***************************************************************************)
JVal(t, s, a, o) == [t |-> t, s |-> s, a |-> a, o |-> o]
JStr(s)   == JVal("str", s, <<>>, {})
JNum(s)   == JVal("num", s, <<>>, {})
JArr(a)   == JVal("arr", <<>>, a, {})
JObj(o)   == JVal("obj", <<>>, <<>>, o)
JTrue     == JVal("true", <<>>, <<>>, {})
JFalse    == JVal("false", <<>>, <<>>, {})
JNull     == JVal("null", <<>>, <<>>, {})
JUndef    == JVal("undefined", <<>>, <<>>, {})

\* obj[k] = v: a repeated key keeps the last value
PutMember(o, k, v) == {p \in o : p[1] # k} \cup {<<k, v>>}

HasKey(v, k) == v.t = "obj" /\ \E p \in v.o : p[1] = k

\* v.k for a string key that is no built-in property of arrays, strings or
\* numbers.  Reading a property of null throws; callers test Throws first.
Get(v, k) ==
  IF HasKey(v, k) THEN (CHOOSE p \in v.o : p[1] = k)[2] ELSE JUndef

\* !!v
Truthy(v) ==
  CASE v.t \in {"undefined", "null", "false"} -> FALSE
    [] v.t = "str" -> v.s # <<>>
    [] v.t = "num" -> v.s \notin {<<"0">>, <<"-", "0">>}
    [] OTHER -> TRUE

JsonWs == {" ", "\n", "\r", "\t"}
Digits == {"0", "1", "2", "3", "4", "5", "6", "7", "8", "9"}
\* characters a JSON string literal may not hold unescaped
ControlChars == {"\n", "\r", "\t", "\f"}

PFail == [ok |-> FALSE, v |-> JNull, n |-> 0]
POk(v, n) == [ok |-> TRUE, v |-> v, n |-> n]

\* Positions in the parser are 1-based indices of the next character to read.
\* the first position at or after i that holds no JSON white space
SkipWs(s, i) ==
  LET stops == {j \in i..Len(s) : s[j] \notin JsonWs}
  IN  IF stops = {} THEN Len(s) + 1 ELSE Min(stops)

\* The character an escape \c stands for.  \b and \uXXXX are not in the
\* alphabet of the inputs and are not modelled.
Unescape(c) ==
  CASE c = "n" -> "\n"
    [] c = "r" -> "\r"
    [] c = "t" -> "\t"
    [] c = "f" -> "\f"
    [] OTHER -> c

\* One character of the body of a string literal, at position i.  st holds
\* the decoded text acc, whether a backslash is pending, and n: 0 while the
\* literal is open, the position after its closing quote once closed, -1 once
\* the literal is found malformed.
StrStep(s, i, st) ==
  IF st.esc THEN
    IF s[i] \in {"\"", "\\", "/", "n", "r", "t", "f"}
    THEN [st EXCEPT !.acc = Append(@, Unescape(s[i])), !.esc = FALSE]
    ELSE [st EXCEPT !.n = -1]
  ELSE IF s[i] = "\"" THEN [st EXCEPT !.n = i + 1]
  ELSE IF s[i] = "\\" THEN [st EXCEPT !.esc = TRUE]
  ELSE IF s[i] \in ControlChars THEN [st EXCEPT !.n = -1]
  ELSE [st EXCEPT !.acc = Append(@, s[i])]

\* StrStep at the positions lo .. hi - 1 in order, until the literal ends.
RECURSIVE StrRange(_, _, _, _)
StrRange(s, st, lo, hi) ==
  IF st.n # 0 \/ lo >= hi THEN st
  ELSE IF hi - lo = 1 THEN StrStep(s, lo, st)
  ELSE LET mid == (lo + hi) \div 2
           left == StrRange(s, st, lo, mid)
       IN  StrRange(s, left, mid, hi)

\* The body of a string literal from position i on: v is the decoded text,
\* n the position after the closing quote.
StrBody(s, i) ==
  LET st == StrRange(s, [acc |-> <<>>, esc |-> FALSE, n |-> 0], i, Len(s) + 1)
  IN  IF st.n > 0 THEN [ok |-> TRUE, v |-> st.acc, n |-> st.n]
      ELSE [ok |-> FALSE, v |-> <<>>, n |-> 0]

\* the first position at or after i that holds no digit
DigitsEnd(s, i) ==
  LET stops == {j \in i..Len(s) : s[j] \notin Digits}
  IN  IF stops = {} THEN Len(s) + 1 ELSE Min(stops)

\* An integer literal at position i (fractions and exponents are not in the
\* alphabet of the inputs).  A leading zero ends the number: "01" is an error.
ParseNumber(s, i) ==
  LET j == IF s[i] = "-" THEN i + 1 ELSE i
      e == DigitsEnd(s, j)
  IN  IF e = j THEN PFail
      ELSE IF s[j] = "0" /\ e > j + 1 THEN PFail
      ELSE POk(JNum(SubSeq(s, i, e - 1)), e)

ParseLiteral(s, i, word, v) ==
  IF StartsWithAt(s, word, i - 1) THEN POk(v, i + Len(word)) ELSE PFail

RECURSIVE ParseValue(_, _), ParseElems(_, _, _), ParseMembers(_, _, _)

\* A value starting at the first non-blank position at or after i0.
ParseValue(s, i0) ==
  LET i == SkipWs(s, i0)
  IN  IF i > Len(s) THEN PFail
      ELSE IF s[i] = "{" THEN
        LET j == SkipWs(s, i + 1)
        IN  IF j <= Len(s) /\ s[j] = "}" THEN POk(JObj({}), j + 1)
            ELSE ParseMembers(s, j, {})
      ELSE IF s[i] = "[" THEN
        LET j == SkipWs(s, i + 1)
        IN  IF j <= Len(s) /\ s[j] = "]" THEN POk(JArr(<<>>), j + 1)
            ELSE ParseElems(s, j, <<>>)
      ELSE IF s[i] = "\"" THEN
        LET r == StrBody(s, i + 1)
        IN  IF r.ok THEN POk(JStr(r.v), r.n) ELSE PFail
      ELSE IF s[i] = "-" \/ s[i] \in Digits THEN ParseNumber(s, i)
      ELSE IF s[i] = "t" THEN ParseLiteral(s, i, <<"t", "r", "u", "e">>, JTrue)
      ELSE IF s[i] = "f" THEN ParseLiteral(s, i, <<"f", "a", "l", "s", "e">>, JFalse)
      ELSE IF s[i] = "n" THEN ParseLiteral(s, i, <<"n", "u", "l", "l">>, JNull)
      ELSE PFail

\* value (, value)* ] from position i on; acc holds the elements read so far.
ParseElems(s, i, acc) ==
  LET r == ParseValue(s, i)
  IN  IF ~r.ok THEN PFail
      ELSE LET j == SkipWs(s, r.n)
           IN  IF j > Len(s) THEN PFail
               ELSE IF s[j] = "]" THEN POk(JArr(Append(acc, r.v)), j + 1)
               ELSE IF s[j] = "," THEN ParseElems(s, j + 1, Append(acc, r.v))
               ELSE PFail

\* "key" : value (, "key" : value)* } from position i on.
ParseMembers(s, i, acc) ==
  LET j == SkipWs(s, i)
  IN  IF j > Len(s) \/ s[j] # "\"" THEN PFail
      ELSE LET k == StrBody(s, j + 1)
           IN  IF ~k.ok THEN PFail
               ELSE LET c == SkipWs(s, k.n)
                    IN  IF c > Len(s) \/ s[c] # ":" THEN PFail
                        ELSE LET r == ParseValue(s, c + 1)
                             IN  IF ~r.ok THEN PFail
                                 ELSE LET e == SkipWs(s, r.n)
                                          o == PutMember(acc, k.v, r.v)
                                      IN  IF e > Len(s) THEN PFail
                                          ELSE IF s[e] = "}" THEN POk(JObj(o), e + 1)
                                          ELSE IF s[e] = "," THEN ParseMembers(s, e + 1, o)
                                          ELSE PFail

\* JSON.parse(s): ok is FALSE where JSON.parse throws a SyntaxError.
JsonParse(s) ==
  LET r == ParseValue(s, 1)
  IN  IF r.ok /\ SkipWs(s, r.n) = Len(s) + 1 THEN r ELSE PFail

(***************************************************************************)
(* Literal strings of the source                                           *)
(***************************************************************************)
Q(w) == <<"\"">> \o w \o <<"\"">>

W_workflow     == <<"w", "o", "r", "k", "f", "l", "o", "w">>
W_nodes        == <<"n", "o", "d", "e", "s">>
W_links        == <<"l", "i", "n", "k", "s">>
W_requirements == <<"r", "e", "q", "u", "i", "r", "e", "m", "e", "n", "t", "s">>
W_last_node_id == <<"l", "a", "s", "t", "_", "n", "o", "d", "e", "_", "i", "d">>
W_lines        == <<"l", "i", "n", "e", "s">>
W_models       == <<"m", "o", "d", "e", "l", "s">>
W_custom_nodes == <<"c", "u", "s", "t", "o", "m", "_", "n", "o", "d", "e", "s">>
W_type         == <<"t", "y", "p", "e">>
W_data         == <<"d", "a", "t", "a">>
W_status       == <<"s", "t", "a", "t", "u", "s">>
W_token        == <<"t", "o", "k", "e", "n">>

\* "###JSON_START###"
MARKER ==
  <<"#", "#", "#", "J", "S", "O", "N", "_", "S", "T", "A", "R", "T", "#", "#", "#">>

\* "THOUGHTS:", which the system prompt asks the reasoning to start with
THOUGHTS == <<"T", "H", "O", "U", "G", "H", "T", "S", ":">>

\* The grave accent U+0060, which a string literal of this language cannot hold.
BT == "GRAVE"
\* "```" and "```json"
FENCE == <<BT, BT, BT>>
FENCE_JSON == FENCE \o <<"j", "s", "o", "n">>

\* "No thoughts captured."
NO_THOUGHTS ==
  <<"N", "o", " ", "t", "h", "o", "u", "g", "h", "t", "s", " ",
    "c", "a", "p", "t", "u", "r", "e", "d", ".">>

\* ['{"workflow"', '{"nodes"', '{"requirements"', '{"last_node_id"', '{"lines"']
patterns ==
  << <<"{">> \o Q(W_workflow), <<"{">> \o Q(W_nodes), <<"{">> \o Q(W_requirements),
     <<"{">> \o Q(W_last_node_id), <<"{">> \o Q(W_lines) >>

(***************************************************************************)
(* extractJson (src/unnamed/part_001)                                      *)
(***************************************************************************)

\* The loop over patterns: k is the next pattern, best the bestStartIndex so far.
RECURSIVE BestStartFrom(_, _, _)
BestStartFrom(text, k, best) ==
  IF k > Len(patterns) THEN best
  ELSE LET idx == IndexOf(text, patterns[k])
       IN  BestStartFrom(text, k + 1,
             IF idx > -1 /\ (best = -1 \/ idx < best) THEN idx ELSE best)

\* (mutant) the first pattern of the list that occurs decides, not the least index
bestStartFirstListed(text) ==
  LET present == {k \in DOMAIN patterns : Includes(text, patterns[k])}
  IN  IF present = {} THEN -1 ELSE IndexOf(text, patterns[Min(present)])

bestStartIndex(text) == BestStartFrom(text, 1, -1)

\* (mutant) a loop body that counts the braces inside string literals too
ScanStepCountsStrings(text, i, st) ==
  LET char == text[i + 1]
      opened == IF char = "{" THEN st.braces + 1 ELSE st.braces
  IN  IF char = "}"
      THEN IF opened - 1 = 0
           THEN [st EXCEPT !.braces = opened - 1, !.found = i]
           ELSE [st EXCEPT !.braces = opened - 1]
      ELSE [st EXCEPT !.braces = opened]

\* What the balanced brace loops start from.
ScanInit == [braces |-> 0, insideString |-> FALSE, escape |-> FALSE, found |-> -1]

\* One iteration of the brace loop of extractJson, at index i: braces is
\* openBraces, found is endIndex (the loop breaks once it is set).
ScanStep(text, i, st) ==
  LET char == text[i + 1]
  IN  IF st.escape THEN [st EXCEPT !.escape = FALSE]
      ELSE IF char = "\\" THEN [st EXCEPT !.escape = TRUE]
      ELSE IF char = "\"" THEN [st EXCEPT !.insideString = ~@]
      ELSE IF st.insideString THEN st
      ELSE LET opened == IF char = "{" THEN st.braces + 1 ELSE st.braces
           IN  IF char = "}"
               THEN IF opened - 1 = 0
                    THEN [st EXCEPT !.braces = opened - 1, !.found = i]
                    ELSE [st EXCEPT !.braces = opened - 1]
               ELSE [st EXCEPT !.braces = opened]

\* The iterations lo .. hi - 1 of that loop in order, up to its break.
RECURSIVE ScanLoop(_, _, _, _)
ScanLoop(text, st, lo, hi) ==
  IF st.found > -1 \/ lo >= hi THEN st
  ELSE IF hi - lo = 1 THEN ScanStep(text, lo, st)
  ELSE LET mid == (lo + hi) \div 2
           left == ScanLoop(text, st, lo, mid)
       IN  ScanLoop(text, left, mid, hi)

\* endIndex after the loop started at bestStartIndex = start
endIndex(text, start) == ScanLoop(text, ScanInit, start, Len(text)).found

\* One iteration of the brace loop of extractContentFromText
\* (src/services/localLlmService.ts), at index i: braces is balance, found is
\* lastBrace.
BalanceStep(cleanText, i, st) ==
  LET char == cleanText[i + 1]
  IN  IF st.escape THEN [st EXCEPT !.escape = FALSE]
      ELSE IF char = "\\" THEN [st EXCEPT !.escape = TRUE]
      ELSE IF char = "\"" THEN [st EXCEPT !.insideString = ~@]
      ELSE IF st.insideString THEN st
      ELSE IF char = "{" THEN [st EXCEPT !.braces = @ + 1]
      ELSE IF char = "}"
           THEN IF st.braces - 1 = 0
                THEN [st EXCEPT !.braces = @ - 1, !.found = i]
                ELSE [st EXCEPT !.braces = @ - 1]
      ELSE st

RECURSIVE BalanceLoop(_, _, _, _)
BalanceLoop(cleanText, st, lo, hi) ==
  IF st.found > -1 \/ lo >= hi THEN st
  ELSE IF hi - lo = 1 THEN BalanceStep(cleanText, lo, st)
  ELSE LET mid == (lo + hi) \div 2
           left == BalanceLoop(cleanText, st, lo, mid)
       IN  BalanceLoop(cleanText, left, mid, hi)

\* lastBrace after the loop started at firstBrace
lastBrace(cleanText, firstBrace) ==
  BalanceLoop(cleanText, ScanInit, firstBrace, Len(cleanText)).found

\* The results of extractJson: ok is FALSE where it throws; by names the
\* return statement taken ("marker", "anchor", "fallback").
Extracted(v, by) == [ok |-> TRUE, v |-> v, by |-> by]
NotExtracted == [ok |-> FALSE, v |-> <<>>, by |-> "none"]

\* Strategy 1: text.split(marker)[1].trim()
markerSplit(text) == Extracted(Trim(Split(text, MARKER)[2]), "marker")

\* Strategy 2: the balanced object at the earliest pattern, if the braces balance
anchorScan(text) ==
  LET b == bestStartIndex(text)
      e == IF b > -1 THEN endIndex(text, b) ELSE -1
  IN  IF b > -1 /\ e > -1 THEN Extracted(Substring(text, b, e + 1), "anchor")
      ELSE NotExtracted

\* (mutant) the span ends at the first '}' of the text, not at the last
fallbackFirstClose(text) ==
  LET firstBrace == IndexOf(text, <<"{">>)
      closeIdx == IndexOf(text, <<"}">>)
  IN  IF firstBrace > -1 /\ closeIdx > firstBrace
      THEN Extracted(Substring(text, firstBrace, closeIdx + 1), "fallback")
      ELSE NotExtracted

\* (mutant) no throw: a text without a brace span is given back whole
fallbackWholeText(text) ==
  LET firstBrace == IndexOf(text, <<"{">>)
      lastBraceIdx == LastIndexOf(text, <<"}">>)
  IN  IF firstBrace > -1 /\ lastBraceIdx > firstBrace
      THEN Extracted(Substring(text, firstBrace, lastBraceIdx + 1), "fallback")
      ELSE Extracted(text, "fallback")

\* Strategy 3: from the first '{' to the last '}', or the throw
fallbackSpan(text) ==
  LET firstBrace == IndexOf(text, <<"{">>)
      lastBraceIdx == LastIndexOf(text, <<"}">>)
  IN  IF firstBrace > -1 /\ lastBraceIdx > firstBrace
      THEN Extracted(Substring(text, firstBrace, lastBraceIdx + 1), "fallback")
      ELSE NotExtracted

\* (mutant) the key-anchored scan is tried before the marker
extractJsonAnchorFirst(text) ==
  IF anchorScan(text).ok THEN anchorScan(text)
  ELSE IF Includes(text, MARKER) THEN markerSplit(text)
  ELSE fallbackSpan(text)

\* (mutant) an anchored scan that finds no end throws at once
extractJsonAnchorThrows(text) ==
  IF Includes(text, MARKER) THEN markerSplit(text)
  ELSE IF bestStartIndex(text) > -1 THEN anchorScan(text)
  ELSE fallbackSpan(text)

extractJson(text) ==
  IF Includes(text, MARKER) THEN markerSplit(text)
  ELSE IF anchorScan(text).ok THEN anchorScan(text)
  ELSE fallbackSpan(text)

(***************************************************************************)
(* generateWorkflowLocal after the stream has ended (src/unnamed/part_001) *)
(***************************************************************************)

\* Phase 2, the text before the payload: fullText.substring(0, jsonStartIdx)
\* trimmed, the marker removed, trimmed again.
thoughtsOf(fullText, jsonString) ==
  LET jsonStartIdx == IndexOf(fullText, jsonString)
  IN  IF jsonStartIdx > -1
      THEN Trim(Replace(Trim(Substring(fullText, 0, jsonStartIdx)), MARKER, <<>>))
      ELSE fullText

\* (mutant) replace with string patterns: the first occurrence of each only
cleanFencesFirstOnly(jsonString) ==
  Trim(Replace(Replace(jsonString, FENCE_JSON, <<>>), FENCE, <<>>))

\* jsonString.replace(/```json/g, '').replace(/```/g, '').trim()
cleanFences(jsonString) == Trim(RemoveAll(RemoveAll(jsonString, FENCE_JSON), FENCE))

\* (mutant) the default lacks custom_nodes
defaultRequirementsModelsOnly == JObj({<<W_models, JArr(<<>>)>>})

\* { models: [], custom_nodes: [] }
defaultRequirements ==
  JObj({<<W_models, JArr(<<>>)>>, <<W_custom_nodes, JArr(<<>>)>>})

\* Auto-repair of the parsed value and the fields of the returned object.
\* ok is FALSE where the code throws: err "TypeError" when parsedData is null
\* (a property of null is read), "structure" for the missing workflow.
repair(parsedData) ==
  IF parsedData.t = "null"
  THEN [ok |-> FALSE, err |-> "TypeError", workflow |-> JUndef, requirements |-> JUndef]
  ELSE LET wrapped ==
             IF /\ ~Truthy(Get(parsedData, W_workflow))
                /\ (Truthy(Get(parsedData, W_nodes)) \/ Truthy(Get(parsedData, W_links)))
             THEN JObj({<<W_workflow, parsedData>>, <<W_requirements, defaultRequirements>>})
             ELSE parsedData
           filled ==
             IF Truthy(Get(wrapped, W_workflow)) /\ ~Truthy(Get(wrapped, W_requirements))
             THEN JObj(PutMember(wrapped.o, W_requirements, defaultRequirements))
             ELSE wrapped
       IN  IF ~Truthy(Get(filled, W_workflow))
           THEN [ok |-> FALSE, err |-> "structure", workflow |-> JUndef,
                 requirements |-> JUndef]
           ELSE [ok |-> TRUE, err |-> "",
                 workflow |-> Get(filled, W_workflow),
                 requirements |-> Get(filled, W_requirements)]

\* (mutant) the thoughts are returned as they are, empty or not
thoughtsAsTheyAre(t) == t

\* thoughts || "No thoughts captured."
thoughtsOrPlaceholder(thoughts) == IF thoughts # <<>> THEN thoughts ELSE NO_THOUGHTS

\* The outcomes of generateWorkflowLocal: the returned object, or the throw
\* with err naming the throwing phase.
NoResult == [thoughts |-> <<>>, workflow |-> JUndef, requirements |-> JUndef]
Returned(thoughts, f) ==
  [ok |-> TRUE, err |-> "",
   result |-> [thoughts |-> thoughtsOrPlaceholder(thoughts),
               workflow |-> f.workflow, requirements |-> f.requirements]]
Thrown(err) == [ok |-> FALSE, err |-> err, result |-> NoResult]

\* The messages of the Errors thrown.  A fixed wording is one element.
MSG_NO_JSON == <<"The AI replied, but no valid ComfyUI JSON could be identified.">>
MSG_SYNTAX == <<"JSON Syntax Error: ">>
MSG_STRUCTURE == <<"Invalid workflow structure received from AI.">>
\* the engine's message for reading .workflow of null
MSG_TYPE_ERROR == <<"Cannot read properties of null (reading 'workflow')">>

\* e.message of the SyntaxError JSON.parse throws on s.  Its wording is the
\* engine's: it names a token and a position, or it quotes the text, or it
\* quotes a part of the text (here the first character).
SyntaxErrorMessages(s) ==
  { <<"Unexpected token in JSON at position">>,
    <<"Unexpected token, ">> \o Q(s) \o <<" is not valid JSON">>,
    <<"Unexpected token, ">> \o Q(SubSeq(s, 1, 1) \o <<"...">>) \o <<" is not valid JSON">> }

\* Phases 2 to 4 in one piece: extraction, cleanup and parsing, repair.
finish(fullText) ==
  LET x == extractJson(fullText)
      r == JsonParse(cleanFences(x.v))
      f == repair(r.v)
  IN  IF ~x.ok THEN Thrown("extraction")
      ELSE IF ~r.ok THEN Thrown("syntax")
      ELSE IF ~f.ok THEN Thrown(f.err)
      ELSE Returned(thoughtsOf(fullText, x.v), f)

(***************************************************************************)
(* generateWorkflowLocal while the stream is read (src/unnamed/part_001)   *)
(*                                                                         *)
(* The response body is a sequence of bytes.  A byte below 0x80 is written *)
(* as its character; B_C3 B_A9 is the two-byte UTF-8 form of U+00E9.       *)
(***************************************************************************)
B_C3 == "0xC3"
B_A9 == "0xA9"
E_ACUTE == "U+00E9"
REPLACEMENT == "U+FFFD"

\* One byte through the UTF-8 decoder: st holds the text decoded so far and
\* the lead byte still waiting for its continuation.
DecodeStep(bytes, i, st) ==
  LET b == bytes[i]
      flushed == IF st.pending # <<>> /\ b # B_A9
                 THEN Append(st.out, REPLACEMENT) ELSE st.out
  IN  IF st.pending # <<>> /\ b = B_A9
      THEN [out |-> Append(st.out, E_ACUTE), pending |-> <<>>]
      ELSE IF b = B_C3 THEN [out |-> flushed, pending |-> <<B_C3>>]
      ELSE IF b = B_A9 THEN [out |-> Append(flushed, REPLACEMENT), pending |-> <<>>]
      ELSE [out |-> Append(flushed, b), pending |-> <<>>]

\* DecodeStep at the positions lo .. hi - 1 in order. The decoder holds at
\* most a lead byte at any point.
RECURSIVE DecodeRange(_, _, _, _)
DecodeRange(bytes, st, lo, hi) ==
  IF st.pending \notin {<<>>, <<B_C3>>} \/ lo >= hi THEN st
  ELSE IF hi - lo = 1 THEN DecodeStep(bytes, lo, st)
  ELSE LET mid == (lo + hi) \div 2
           left == DecodeRange(bytes, st, lo, mid)
       IN  DecodeRange(bytes, left, mid, hi)

\* (mutant) decoder.decode(value) without { stream: true }: a lead byte at
\* the end of a chunk is not carried over
decodeNoStream(pending, value) ==
  LET st == DecodeRange(value, [out |-> <<>>, pending |-> <<>>], 1, Len(value) + 1)
  IN  [out |-> IF st.pending # <<>> THEN Append(st.out, REPLACEMENT) ELSE st.out,
       pending |-> <<>>]

\* decoder.decode(value, { stream: true }) with the decoder holding pending
decode(pending, value) ==
  DecodeRange(value, [out |-> <<>>, pending |-> pending], 1, Len(value) + 1)

\* String(v), the text `fullText += v` appends
RECURSIVE ToStr(_), JoinElems(_)
ToStr(v) ==
  CASE v.t = "str" -> v.s
    [] v.t = "num" -> IF v.s = <<"-", "0">> THEN <<"0">> ELSE v.s
    [] v.t = "true" -> <<"t", "r", "u", "e">>
    [] v.t = "false" -> <<"f", "a", "l", "s", "e">>
    [] v.t = "null" -> <<"n", "u", "l", "l">>
    [] v.t = "undefined" -> <<"u", "n", "d", "e", "f", "i", "n", "e", "d">>
    [] v.t = "arr" -> JoinElems(v.a)
    [] OTHER -> <<"[", "o", "b", "j", "e", "c", "t", " ", "O", "b", "j", "e", "c", "t", "]">>

\* Array.prototype.join: null and undefined elements give the empty string
JoinElems(a) ==
  IF a = <<>> THEN <<>>
  ELSE LET h == IF Head(a).t \in {"null", "undefined"} THEN <<>> ELSE ToStr(Head(a))
       IN  IF Len(a) = 1 THEN h ELSE h \o <<",">> \o JoinElems(Tail(a))

\* (mutant) the catch branch left empty: a line that is no JSON is dropped
processLineDropsRaw(st, line, hasStatusCb) ==
  IF Trim(line) = <<>> THEN st
  ELSE LET msg == JsonParse(line)
       IN  IF ~msg.ok \/ msg.v.t = "null" THEN st
           ELSE IF Get(msg.v, W_type) = JStr(W_status)
           THEN IF hasStatusCb
                THEN [st EXCEPT !.statusCalls = Append(@, Get(msg.v, W_data))]
                ELSE st
           ELSE IF Get(msg.v, W_type) = JStr(W_token)
           THEN [st EXCEPT !.fullText = @ \o ToStr(Get(msg.v, W_data)),
                           !.thoughtsCalls =
                             Append(@, st.fullText \o ToStr(Get(msg.v, W_data)))]
           ELSE st

\* (mutant) onThoughtsUpdate(msg.data): a token reports its own data only
processLineReportsDelta(st, line, hasStatusCb) ==
  IF Trim(line) = <<>> THEN st
  ELSE LET msg == JsonParse(line)
       IN  IF ~msg.ok \/ msg.v.t = "null"
           THEN [st EXCEPT !.fullText = @ \o line,
                           !.thoughtsCalls = Append(@, st.fullText \o line)]
           ELSE IF Get(msg.v, W_type) = JStr(W_status)
           THEN IF hasStatusCb
                THEN [st EXCEPT !.statusCalls = Append(@, Get(msg.v, W_data))]
                ELSE st
           ELSE IF Get(msg.v, W_type) = JStr(W_token)
           THEN [st EXCEPT !.fullText = @ \o ToStr(Get(msg.v, W_data)),
                           !.thoughtsCalls = Append(@, ToStr(Get(msg.v, W_data)))]
           ELSE st

\* (mutant) a status record is taken as token content too
processLineStatusToThoughts(st, line, hasStatusCb) ==
  IF Trim(line) = <<>> THEN st
  ELSE LET msg == JsonParse(line)
       IN  IF ~msg.ok \/ msg.v.t = "null"
           THEN [st EXCEPT !.fullText = @ \o line,
                           !.thoughtsCalls = Append(@, st.fullText \o line)]
           ELSE IF Get(msg.v, W_type) \in {JStr(W_status), JStr(W_token)}
           THEN [st EXCEPT !.fullText = @ \o ToStr(Get(msg.v, W_data)),
                           !.thoughtsCalls =
                             Append(@, st.fullText \o ToStr(Get(msg.v, W_data))),
                           !.statusCalls =
                             IF hasStatusCb /\ Get(msg.v, W_type) = JStr(W_status)
                             THEN Append(@, Get(msg.v, W_data)) ELSE @]
           ELSE st

\* The body of the loop over lines, for one line.  st holds fullText and the
\* arguments the two callbacks have been called with, in call order.
processLine(st, line, hasStatusCb) ==
  IF Trim(line) = <<>> THEN st
  ELSE LET msg == JsonParse(line)
       IN  IF ~msg.ok \/ msg.v.t = "null"
           THEN [st EXCEPT !.fullText = @ \o line,
                           !.thoughtsCalls = Append(@, st.fullText \o line)]
           ELSE IF Get(msg.v, W_type) = JStr(W_status)
           THEN IF hasStatusCb
                THEN [st EXCEPT !.statusCalls = Append(@, Get(msg.v, W_data))]
                ELSE st
           ELSE IF Get(msg.v, W_type) = JStr(W_token)
           THEN [st EXCEPT !.fullText = @ \o ToStr(Get(msg.v, W_data)),
                           !.thoughtsCalls =
                             Append(@, st.fullText \o ToStr(Get(msg.v, W_data)))]
           ELSE st

RECURSIVE processLines(_, _, _)
\* for (const line of lines)
processLines(st, lines, hasStatusCb) ==
  IF lines = <<>> THEN st
  ELSE processLines(processLine(st, Head(lines), hasStatusCb), Tail(lines), hasStatusCb)

\* (mutant) buffer = '' after the split: the incomplete last line is handled
\* as a line instead of being kept
onChunkNoCarry(st, value, hasStatusCb) ==
  LET d == decode(st.pending, value)
      lines == SplitLines(st.buffer \o d.out)
      after == processLines(st, lines, hasStatusCb)
  IN  [after EXCEPT !.pending = d.pending, !.buffer = <<>>]

\* The body of the read loop for one chunk: decode, split, keep the
\* incomplete last line in buffer, handle the complete lines.
onChunk(st, value, hasStatusCb) ==
  LET d == decode(st.pending, value)
      lines == SplitLines(st.buffer \o d.out)
      after == processLines(st, SubSeq(lines, 1, Len(lines) - 1), hasStatusCb)
  IN  [after EXCEPT !.pending = d.pending, !.buffer = lines[Len(lines)]]

\* The state of the read loop before the first chunk.
ReadInit ==
  [pending |-> <<>>, buffer |-> <<>>, fullText |-> <<>>,
   thoughtsCalls |-> <<>>, statusCalls |-> <<>>]

(***************************************************************************)
(* The non-streaming sibling                                               *)
(***************************************************************************)

\* response.ok
IsOk(status) == status \in 200..299

\* callLocalLlmChat on a response: a response that is not ok throws with the
\* status and the body text; an ok one gives choices[0].message.content of
\* the body read as JSON, and throws what reading it throws.
W_choices == <<"c", "h", "o", "i", "c", "e", "s">>
W_message == <<"m", "e", "s", "s", "a", "g", "e">>
W_content == <<"c", "o", "n", "t", "e", "n", "t">>
\* data.choices[0]
firstChoice(data) ==
  LET choices == Get(data, W_choices)
  IN  IF choices.t = "arr" /\ choices.a # <<>> THEN choices.a[1]
      ELSE IF choices.t = "str" /\ choices.s # <<>> THEN JStr(<<choices.s[1]>>)
      ELSE JUndef

\* data.choices[0].message.content of the body read as JSON (p is what
\* JSON.parse gave), with what reading a property of undefined or null throws
replyContent(p) ==
  IF ~p.ok
  THEN [ok |-> FALSE, content |-> JUndef, message |-> <<"SyntaxError">>]
  ELSE IF p.v.t = "null" \/ Get(p.v, W_choices).t \in {"undefined", "null"}
          \/ firstChoice(p.v).t \in {"undefined", "null"}
          \/ Get(firstChoice(p.v), W_message).t \in {"undefined", "null"}
  THEN [ok |-> FALSE, content |-> JUndef, message |-> <<"TypeError">>]
  ELSE [ok |-> TRUE, content |-> Get(Get(firstChoice(p.v), W_message), W_content),
        message |-> <<>>]

callLocalLlmChat(status, responseText) ==
  IF ~IsOk(status)
  THEN [ok |-> FALSE, content |-> JUndef,
        message |-> <<"Local LLM Error (", ToString(status), "): ">> \o responseText]
  ELSE replyContent(JsonParse(responseText))

\* (mutant) the parsed value is put through the repair step
validateLocalRepaired(content) ==
  LET x == extractJson(content)
      r == IF x.ok THEN JsonParse(cleanFences(x.v)) ELSE PFail
      f == repair(r.v)
  IN  [ok |-> r.ok /\ f.ok,
       json |-> IF r.ok /\ f.ok
                THEN JObj({<<W_workflow, f.workflow>>, <<W_requirements, f.requirements>>})
                ELSE JUndef]

\* validateAndCorrectWorkflowLocal and debugAndCorrectWorkflowLocal of
\* src/unnamed/part_001, from the content callLocalLlmChat returned:
\* JSON.parse(extractJson(content)).  ok is FALSE where the call throws.
validateLocal(content) ==
  LET x == extractJson(content)
      r == IF x.ok THEN JsonParse(x.v) ELSE PFail
  IN  [ok |-> r.ok, json |-> IF r.ok THEN r.v ELSE JUndef]

TAG_OPEN  == <<"<", "t", "h", "i", "n", "k", "i", "n", "g", ">">>
TAG_CLOSE == <<"<", "/", "t", "h", "i", "n", "k", "i", "n", "g", ">">>

\* the index after the run of white space that starts at index i
WhiteEnd(s, i) ==
  LET stops == {j \in i..(Len(s) - 1) : s[j + 1] \notin JsWhite}
  IN  IF stops = {} THEN Len(s) ELSE Min(stops)

\* the first index of the run of white space that ends right before index i,
\* not below lo
WhiteStart(s, i, lo) ==
  LET stops == {j \in lo..(i - 1) : s[j + 1] \notin JsWhite}
  IN  IF stops = {} THEN lo ELSE Max(stops) + 1

\* cleanText.match(/```(?:json)?\s*([\s\S]*?)\s*```/i): the capture of the
\* leftmost match (lower-case alphabet), found FALSE when there is no match.
codeBlock(cleanText) ==
  LET a     == IndexOf(cleanText, FENCE)
      j     == IF a > -1 /\ StartsWithAt(cleanText, <<"j", "s", "o", "n">>, a + 3)
               THEN a + 7 ELSE a + 3
      w     == IF a > -1 THEN WhiteEnd(cleanText, j) ELSE -1
      c     == IF a > -1 THEN IndexFrom(cleanText, FENCE, w) ELSE -1
  IN  IF a > -1 /\ c > -1
      THEN [found |-> TRUE, capture |-> Substring(cleanText, w, WhiteStart(cleanText, c, w))]
      ELSE [found |-> FALSE, capture |-> <<>>]

\* extractContentFromText(text) of src/services/localLlmService.ts.
extractContentFromText(text) ==
  LET trimmed  == Trim(text)
      a        == IndexOf(trimmed, TAG_OPEN)
      b        == IF a > -1 THEN IndexFrom(trimmed, TAG_CLOSE, a + Len(TAG_OPEN)) ELSE -1
      thinking == a > -1 /\ b > a + Len(TAG_OPEN)
      thoughts == IF thinking THEN Trim(Substring(trimmed, a + Len(TAG_OPEN), b)) ELSE <<>>
      cleanText ==
        IF thinking
        THEN Trim(Replace(trimmed, Substring(trimmed, a, b + Len(TAG_CLOSE)), <<>>))
        ELSE trimmed
      block == codeBlock(cleanText)
      firstBrace == IndexOf(cleanText, <<"{">>)
      balanced == IF firstBrace # -1 THEN lastBrace(cleanText, firstBrace) ELSE -1
      fallbackLastBrace == LastIndexOf(cleanText, <<"}">>)
      jsonContent ==
        IF block.found /\ block.capture # <<>> THEN Trim(block.capture)
        ELSE IF firstBrace = -1 THEN cleanText
        ELSE IF balanced # -1 THEN Substring(cleanText, firstBrace, balanced + 1)
        ELSE IF fallbackLastBrace # -1
             THEN Substring(cleanText, firstBrace, fallbackLastBrace + 1)
        ELSE cleanText
      r == JsonParse(jsonContent)
  IN  [ok |-> r.ok, json |-> IF r.ok THEN r.v ELSE JUndef,
       hasThoughts |-> thinking, thoughts |-> thoughts]

\* validateAndCorrectWorkflowLocal and debugAndCorrectWorkflowLocal of
\* src/services/localLlmService.ts: the json of extractContentFromText(content).
validateLocalContent(content) ==
  LET x == extractContentFromText(content)
  IN  [ok |-> x.ok, json |-> x.json]

(***************************************************************************)
(* The marker-based consumer: generateWorkflowLocal of                     *)
(* src/services/localLlmService.ts                                         *)
(***************************************************************************)

\* s.trimStart()
TrimStart(s) ==
  IF NonWhite(s) = {} THEN <<>> ELSE SubSeq(s, Min(NonWhite(s)), Len(s))

\* "No thoughts logged."
NO_THOUGHTS_LOGGED == <<"No thoughts logged.">>
\* the thoughts the fallback sets when the text holds no brace span
PARSING_ERROR == <<"Parsing Error: Could not separate thoughts from JSON.">>

\* The variables of the call before the first chunk, with the arguments
\* onThoughtsUpdate has been called with, in call order.
MarkerInit ==
  [pending |-> <<>>, fullText |-> <<>>, thoughts |-> <<>>, isJsonMode |-> FALSE,
   jsonBuffer |-> <<>>, thoughtsCalls |-> <<>>]

\* (mutant) the display branch is taken in JSON mode too
markerChunkKeepsReporting(st, value) ==
  LET d == decode(st.pending, value)
      fullText == st.fullText \o d.out
      parts == Split(fullText, MARKER)
      split == Trim(Replace(Trim(parts[1]), THOUGHTS, <<>>))
      displayThoughts == TrimStart(Replace(fullText, THOUGHTS, <<>>))
  IN  IF ~st.isJsonMode /\ Includes(fullText, MARKER)
      THEN [st EXCEPT !.pending = d.pending, !.fullText = fullText,
                      !.thoughts = split, !.jsonBuffer = parts[2],
                      !.isJsonMode = TRUE, !.thoughtsCalls = Append(@, split)]
      ELSE [st EXCEPT !.pending = d.pending, !.fullText = fullText,
                      !.jsonBuffer = IF st.isJsonMode THEN @ \o d.out ELSE @,
                      !.thoughtsCalls = Append(@, displayThoughts)]

\* The body of the read loop for one chunk: the chunk is added to fullText;
\* before the marker has been seen the text so far is reported, or split at
\* the marker; after that the chunk is added to jsonBuffer.
markerChunk(st, value) ==
  LET d == decode(st.pending, value)
      fullText == st.fullText \o d.out
      parts == Split(fullText, MARKER)
      split == Trim(Replace(Trim(parts[1]), THOUGHTS, <<>>))
      displayThoughts == TrimStart(Replace(fullText, THOUGHTS, <<>>))
  IN  IF ~st.isJsonMode
      THEN IF Includes(fullText, MARKER)
           THEN [st EXCEPT !.pending = d.pending, !.fullText = fullText,
                           !.thoughts = split, !.jsonBuffer = parts[2],
                           !.isJsonMode = TRUE, !.thoughtsCalls = Append(@, split)]
           ELSE [st EXCEPT !.pending = d.pending, !.fullText = fullText,
                           !.thoughtsCalls = Append(@, displayThoughts)]
      ELSE [st EXCEPT !.pending = d.pending, !.fullText = fullText,
                      !.jsonBuffer = @ \o d.out]

\* !isNaN(Number(k)) for a key k: white space only, or a decimal integer
\* with white space around it (the numeric literals the keys here can be)
NotNaN(k) == \A i \in 1..Len(Trim(k)) : Trim(k)[i] \in Digits

\* Object.keys(v).some(k => !isNaN(Number(k))): the keys of an array and of a
\* string are their indices
SomeNumericKey(v) ==
  CASE v.t = "obj" -> \E p \in v.o : NotNaN(p[1])
    [] v.t = "arr" -> v.a # <<>>
    [] v.t = "str" -> v.s # <<>>
    [] OTHER -> FALSE

\* Step 6, the auto-repair of localLlmService.ts, with the numeric-key test.
repairMarker(parsedData) ==
  IF parsedData.t = "null"
  THEN [ok |-> FALSE, err |-> "TypeError", workflow |-> JUndef, requirements |-> JUndef]
  ELSE LET wrapped ==
             IF /\ ~Truthy(Get(parsedData, W_workflow))
                /\ \/ Truthy(Get(parsedData, W_nodes))
                   \/ Truthy(Get(parsedData, W_links))
                   \/ SomeNumericKey(parsedData)
             THEN JObj({<<W_workflow, parsedData>>, <<W_requirements, defaultRequirements>>})
             ELSE parsedData
           filled ==
             IF Truthy(Get(wrapped, W_workflow)) /\ ~Truthy(Get(wrapped, W_requirements))
             THEN JObj(PutMember(wrapped.o, W_requirements, defaultRequirements))
             ELSE wrapped
       IN  IF ~Truthy(Get(filled, W_workflow))
           THEN [ok |-> FALSE, err |-> "structure", workflow |-> JUndef,
                 requirements |-> JUndef]
           ELSE [ok |-> TRUE, err |-> "",
                 workflow |-> Get(filled, W_workflow),
                 requirements |-> Get(filled, W_requirements)]

\* Step 4, the fallback when no marker was seen: the thoughts and the payload
\* text the later steps go on with.
markerFallback(st) ==
  LET firstBrace == IndexOf(st.fullText, <<"{">>)
      lastBraceIdx == LastIndexOf(st.fullText, <<"}">>)
  IN  IF st.isJsonMode
      THEN [thoughts |-> st.thoughts, finalJsonString |-> st.jsonBuffer]
      ELSE IF firstBrace > -1 /\ lastBraceIdx > firstBrace
      THEN [thoughts |-> Trim(Replace(Substring(st.fullText, 0, firstBrace), THOUGHTS, <<>>)),
            finalJsonString |-> Substring(st.fullText, firstBrace, lastBraceIdx + 1)]
      ELSE [thoughts |-> PARSING_ERROR, finalJsonString |-> st.fullText]

\* Steps 5 and 6 on the cleaned payload text p, with the thoughts th
markerParse(th, p) ==
  LET r == JsonParse(p)
      f == repairMarker(r.v)
  IN  IF p = <<>> THEN Thrown("empty")
      ELSE IF ~r.ok THEN Thrown("syntax")
      ELSE IF ~f.ok THEN Thrown(f.err)
      ELSE [ok |-> TRUE, err |-> "",
            result |-> [thoughts |-> IF th # <<>> THEN th ELSE NO_THOUGHTS_LOGGED,
                        workflow |-> f.workflow, requirements |-> f.requirements]]

\* Steps 4 to 6, what the call does once the stream has ended
markerFinish(st) ==
  markerParse(markerFallback(st).thoughts, cleanFences(markerFallback(st).finalJsonString))

(***************************************************************************)
(* callWithRetry of src/services/geminiService.ts                          *)
(*                                                                         *)
(* What an attempt rejects with is an object whose status and message are  *)
(* values: a number, a string, or undefined when the property is absent.   *)
(***************************************************************************)

\* "fetch failed"
FETCH_FAILED ==
  <<"f", "e", "t", "c", "h", " ", "f", "a", "i", "l", "e", "d">>

\* "overloaded"
OVERLOADED ==
  <<"o", "v", "e", "r", "l", "o", "a", "d", "e", "d">>

\* "Service Unavailable"
SERVICE_UNAVAILABLE ==
  <<"S", "e", "r", "v", "i", "c", "e", " ", "U", "n", "a", "v", "a", "i",
    "l", "a", "b", "l", "e">>

\* "Internal Server Error"
INTERNAL_SERVER_ERROR ==
  <<"I", "n", "t", "e", "r", "n", "a", "l", " ", "S", "e", "r", "v", "e",
    "r", " ", "E", "r", "r", "o", "r">>

\* "Max retries exceeded"
MAX_RETRIES_EXCEEDED ==
  <<"M", "a", "x", " ", "r", "e", "t", "r", "i", "e", "s", " ", "e", "x",
    "c", "e", "e", "d", "e", "d">>

\* the status codes compared with error.status
RetryableStatuses == {JNum(<<"5", "0", "3">>), JNum(<<"5", "0", "2">>),
                      JNum(<<"5", "0", "4">>), JNum(<<"5", "0", "0">>)}

\* the texts looked for in error.message
RetryableTexts == {FETCH_FAILED, OVERLOADED, SERVICE_UNAVAILABLE, INTERNAL_SERVER_ERROR}

\* how an attempt ends: operation() resolves with a value or rejects with an error
RetryValue(v) == [ok |-> TRUE, value |-> v, status |-> JUndef, message |-> JUndef]
RetryError(status, message) ==
  [ok |-> FALSE, value |-> "", status |-> status, message |-> message]

\* new Error("Max retries exceeded")
MaxRetriesError == RetryError(JUndef, JStr(MAX_RETRIES_EXCEEDED))

\* no attempt has ended yet
NoAttempt == RetryValue("")

isRetryableAnyError(error) == TRUE

\* const isRetryable = error.status === 503 || ... || (error.message && (...))
isRetryable(error) ==
  \/ error.status \in RetryableStatuses
  \/ /\ Truthy(error.message)
     /\ \E t \in RetryableTexts : Includes(error.message.s, t)

\* Math.pow(2, i) for a loop index i
RECURSIVE Pow2(_)
Pow2(i) == IF i <= 0 THEN 1 ELSE 2 * Pow2(i - 1)

\* Math.random() * 500 lies in [0, 500): its two ends, in whole milliseconds
Jitters == {0, 499}

\* const waitTime = backoff * Math.pow(2, i) + jitter
waitTimeOf(backoff, i, jitter) == backoff * Pow2(i) + jitter

(***************************************************************************)
(* executeWorkflow of src/services/comfyuiService.ts                       *)
(*                                                                         *)
(* An Error is its name and its message.  The wordings of the messages are *)
(* single elements; what is put into them is spelled character by          *)
(* character.                                                              *)
(***************************************************************************)
W_error       == <<"e", "r", "r", "o", "r">>
W_node_errors == <<"n", "o", "d", "e", "_", "e", "r", "r", "o", "r", "s">>
W_errors      == <<"e", "r", "r", "o", "r", "s">>
W_class_type  == <<"c", "l", "a", "s", "s", "_", "t", "y", "p", "e">>
W_prompt_id   == <<"p", "r", "o", "m", "p", "t", "_", "i", "d">>
W_node        == <<"n", "o", "d", "e">>
W_output      == <<"o", "u", "t", "p", "u", "t">>
W_images      == <<"i", "m", "a", "g", "e", "s">>
W_value       == <<"v", "a", "l", "u", "e">>
W_max         == <<"m", "a", "x">>
W_executing   == <<"e", "x", "e", "c", "u", "t", "i", "n", "g">>
W_progress    == <<"p", "r", "o", "g", "r", "e", "s", "s">>
W_executed    == <<"e", "x", "e", "c", "u", "t", "e", "d">>

DigitSeq == <<"0", "1", "2", "3", "4", "5", "6", "7", "8", "9">>

\* the number a text of decimal digits stands for
RECURSIVE NumberOf(_)
NumberOf(s) ==
  IF s = <<>> THEN 0
  ELSE NumberOf(SubSeq(s, 1, Len(s) - 1)) * 10
         + ((CHOOSE d \in 1..10 : DigitSeq[d] = s[Len(s)]) - 1)

\* `${n}` for a number n >= 0
RECURSIVE Decimal(_)
Decimal(n) ==
  IF n < 10 THEN <<DigitSeq[n + 1]>>
  ELSE Decimal(n \div 10) \o <<DigitSeq[(n % 10) + 1]>>

JsError(name, message) == [name |-> name, message |-> message]
NoError == JsError("", <<>>)
\* what reading a property of null or undefined throws
PropertyTypeError == JsError("TypeError", <<"Cannot read properties">>)
\* what JSON.parse and response.json() throw
JsonSyntaxError == JsError("SyntaxError", <<"Unexpected token">>)
\* what fetch rejects with
FetchTypeError == JsError("TypeError", <<"Failed to fetch">>)

\* getNetworkError(error, apiUrl, 'execution'): which message it gives is
\* decided by the page and by apiUrl, here by net
getNetworkError(net) ==
  JsError("Error",
          CASE net = "mixed" -> <<"Mixed Content Error during execution">>
            [] net = "invalid" -> <<"Invalid URL provided for execution">>
            [] OTHER -> <<"Network Error during execution">>)

RECURSIVE Entries(_)
\* Object.entries(o) of an object whose keys are integers in decimal, which
\* come in ascending order; as a sequence of <<key, value>>
Entries(o) ==
  IF o = {} THEN <<>>
  ELSE LET p == CHOOSE p \in o : \A q \in o : NumberOf(p[1]) <= NumberOf(q[1])
       IN  <<p>> \o Entries(o \ {p})

RECURSIVE JoinWith(_, _)
\* a.join(sep) of an array of values
JoinWith(a, sep) ==
  IF a = <<>> THEN <<>>
  ELSE LET h == IF Head(a).t \in {"null", "undefined"} THEN <<>> ELSE ToStr(Head(a))
       IN  IF Len(a) = 1 THEN h ELSE h \o sep \o JoinWith(Tail(a), sep)

Nullish(v) == v.t \in {"null", "undefined"}

\* v.errors.map((e) => e.message) throws when an element is null
MessagesOf(a) == [j \in 1..Len(a) |-> Get(a[j], W_message)]

\* ([k, v]) => `Node ${k} (${v.class_type}): ${errors}`
nodeErrorLine(k, v) ==
  LET errs == Get(v, W_errors)
      errors == IF errs.t = "arr" THEN JoinWith(MessagesOf(errs.a), <<",", " ">>)
                ELSE <<"Unknown error">>
  IN  <<"Node ">> \o k \o <<" (">> \o ToStr(Get(v, W_class_type)) \o <<"): ">> \o errors

\* the callback of the map throws a TypeError
nodeErrorThrows(v) ==
  \/ Nullish(v)
  \/ /\ Get(v, W_errors).t = "arr"
     /\ \E j \in 1..Len(Get(v, W_errors).a) : Nullish(Get(v, W_errors).a[j])

RECURSIVE JoinLines(_)
\* lines.join('\n')
JoinLines(lines) ==
  IF lines = <<>> THEN <<>>
  ELSE IF Len(lines) = 1 THEN lines[1]
  ELSE lines[1] \o <<"\n">> \o JoinLines(Tail(lines))

\* new Error(`ComfyUI Validation Error:\n${nodeErrors}`) for the entries es
\* of errJson.node_errors
validationError(es) ==
  JsError("Error",
          <<"ComfyUI Validation Error:", "\n">>
            \o JoinLines([j \in 1..Len(es) |-> nodeErrorLine(es[j][1], es[j][2])]))

\* new Error(`ComfyUI API error (${response.status}):\n${errorBody}`)
apiError(status, errorBody) ==
  JsError("Error",
          <<"ComfyUI API error (">> \o Decimal(status) \o <<"):", "\n">> \o errorBody)

\* The try block "Try to parse nicer error" on the parse p of errorBody: the
\* error it throws, NoError when it throws none.
nicerError(p) ==
  IF ~p.ok THEN JsonSyntaxError
  ELSE IF Nullish(p.v) THEN PropertyTypeError
  ELSE IF Truthy(Get(p.v, W_error)) /\ Truthy(Get(p.v, W_node_errors))
  THEN IF \E q \in Get(p.v, W_node_errors).o : nodeErrorThrows(q[2])
       THEN PropertyTypeError
       ELSE validationError(Entries(Get(p.v, W_node_errors).o))
  ELSE NoError

PromptFailed(e, caught) ==
  [ok |-> FALSE, promptId |-> JUndef, error |-> e, caught |-> caught]
PromptAccepted(id) ==
  [ok |-> TRUE, promptId |-> id, error |-> NoError, caught |-> NoError]

\* if (!response.ok): whatever the try block throws, its catch (parseErr)
\* takes and drops; the throw after it is the one that leaves
notOk(status, errorBody, p) ==
  PromptFailed(apiError(status, errorBody), nicerError(p))

\* new Error(`ComfyUI prompt error: ${jsonResponse.error.type} - ${jsonResponse.message}`)
promptError(jsonResponse) ==
  JsError("Error",
          <<"ComfyUI prompt error: ">> \o ToStr(Get(Get(jsonResponse, W_error), W_type))
            \o <<" - ">> \o ToStr(Get(jsonResponse, W_message)))

\* after an ok response, on the outcome p of response.json(): the error that
\* reaches the outer catch, or the prompt id
accepted(p) ==
  IF ~p.ok THEN PromptFailed(JsonSyntaxError, NoError)
  ELSE IF Nullish(p.v) THEN PromptFailed(PropertyTypeError, NoError)
  ELSE IF Truthy(Get(p.v, W_error)) THEN PromptFailed(promptError(p.v), NoError)
  ELSE PromptAccepted(Get(p.v, W_prompt_id))

\* catch (error): error instanceof TypeError ? getNetworkError(...) : error
errorReported(e, net) == IF e.name = "TypeError" THEN getNetworkError(net) ELSE e

W_id    == <<"i", "d">>
W_title == <<"t", "i", "t", "l", "e">>
W_meta  == <<"_", "m", "e", "t", "a">>

\* a || b
OrElse(a, b) == IF Truthy(a) THEN a ELSE b

RECURSIVE graphNodes(_)
\* new Map(nodes.map((node) => [String(node.id), node.title || node.type])),
\* as an object: a later pair of the same key replaces an earlier one
graphNodes(nodes) ==
  IF nodes = <<>> THEN {}
  ELSE LET node == nodes[Len(nodes)]
       IN  PutMember(graphNodes(SubSeq(nodes, 1, Len(nodes) - 1)),
                     ToStr(Get(node, W_id)),
                     OrElse(Get(node, W_title), Get(node, W_type)))

\* nodesById.set(id, node._meta?.title || node.class_type) for each entry
\* whose node has a class_type
apiNodes(workflow) ==
  {<<p[1], OrElse(Get(Get(p[2], W_meta), W_title), Get(p[2], W_class_type))>> :
     p \in {q \in workflow.o : Truthy(q[2]) /\ Truthy(Get(q[2], W_class_type))}}

\* SAFE NODE MAPPING: the Map nodesById of a workflow in either format
nodesByIdOf(workflow) ==
  IF HasKey(workflow, W_nodes) /\ Get(workflow, W_nodes).t = "arr"
  THEN graphNodes(Get(workflow, W_nodes).a)
  ELSE IF workflow.t = "obj" THEN apiNodes(workflow)
  ELSE {}

\* the calls of the three callbacks
ProgressCall(message, progress) ==
  [cb |-> "onProgress", message |-> message, progress |-> progress, images |-> <<>>]
CompleteCall(images) ==
  [cb |-> "onComplete", message |-> <<>>, progress |-> 0, images |-> images]
ErrorCall(e) ==
  [cb |-> "onError", message |-> e.message, progress |-> 0, images |-> <<>>]

\* onProgress({ message: 'Konvertiere Workflow in API-Format...', progress: 5 })
CONVERTING == ProgressCall(<<"Konvertiere Workflow in API-Format...">>, 5)

\* new Error('WebSocket connection error.')
WS_ERROR == JsError("Error", <<"WebSocket connection error.">>)

\* generatedImages, the WebSocket's readyState ("NONE" while there is no
\* WebSocket) and the calls of the callbacks so far
RelayInit == [images |-> <<>>, ws |-> "NONE", calls |-> <<>>]

\* data.type === type && data.data.prompt_id === promptId
ForPrompt(data, type, promptId) ==
  Get(data, W_type) = JStr(type) /\ Get(Get(data, W_data), W_prompt_id) = promptId

\* reading data.type of null, or data.data.prompt_id with no data.data, throws
relayThrows(data) ==
  \/ Nullish(data)
  \/ /\ Get(data, W_type) \in {JStr(W_executing), JStr(W_progress), JStr(W_executed)}
     /\ Nullish(Get(data, W_data))

\* if (data.type === 'executing' && ...)
onExecuting(st, node, nodesById) ==
  IF node = JNull
  THEN [st EXCEPT !.ws = "CLOSING", !.calls = Append(@, CompleteCall(st.images))]
  ELSE LET nodeName == OrElse(Get(JObj(nodesById), ToStr(node)),
                              JStr(<<"Node ">> \o ToStr(node)))
       IN  [st EXCEPT !.calls =
              Append(@, ProgressCall(<<"Executing: ">> \o ToStr(nodeName) \o <<"...">>, 0))]

\* if (data.type === 'progress' && ...), for whole numbers value and max > 0
\* of which max divides value * 100
onProgressMessage(st, value, max) ==
  [st EXCEPT !.calls =
     Append(@, ProgressCall(<<"Processing... (">> \o ToStr(value) \o <<"/">>
                              \o ToStr(max) \o <<")">>,
                            (NumberOf(value.s) * 100) \div NumberOf(max.s)))]

\* (mutant) the images of a message replace the ones collected
onExecutedKeepsLast(st, output) ==
  IF Truthy(output) /\ Truthy(Get(output, W_images)) /\ Get(output, W_images).t = "arr"
  THEN [st EXCEPT !.images = Get(output, W_images).a]
  ELSE st

\* if (data.type === 'executed' && ...)
onExecuted(st, output) ==
  IF Truthy(output) /\ Truthy(Get(output, W_images)) /\ Get(output, W_images).t = "arr"
  THEN [st EXCEPT !.images = @ \o Get(output, W_images).a]
  ELSE st

\* ws.onmessage on an event whose data is a string or not, p the outcome of
\* JSON.parse(event.data).  A handler that throws has called nothing.
onmessage(st, isString, p, promptId, nodesById) ==
  IF ~isString THEN st
  ELSE IF ~p.ok THEN st
  ELSE IF relayThrows(p.v) THEN st
  ELSE IF ForPrompt(p.v, W_executing, promptId)
  THEN onExecuting(st, Get(Get(p.v, W_data), W_node), nodesById)
  ELSE IF ForPrompt(p.v, W_progress, promptId)
  THEN onProgressMessage(st, Get(Get(p.v, W_data), W_value), Get(Get(p.v, W_data), W_max))
  ELSE IF ForPrompt(p.v, W_executed, promptId)
  THEN onExecuted(st, Get(Get(p.v, W_data), W_output))
  ELSE st

(***************************************************************************)
(* Inputs: texts a model may answer with                                   *)
(***************************************************************************)

\* the most fragments a text is put together from
MaxFrags == 3

Member(k, valueText) == Q(k) \o <<":">> \o valueText

RECURSIVE JoinComma(_)
\* the non-empty texts of ms, separated by commas
JoinComma(ms) ==
  IF ms = <<>> THEN <<>>
  ELSE LET rest == JoinComma(Tail(ms))
       IN  IF Head(ms) = <<>> THEN rest
           ELSE IF rest = <<>> THEN Head(ms)
           ELSE Head(ms) \o <<",">> \o rest

ObjText(ms) == <<"{">> \o JoinComma(ms) \o <<"}">>

EmptyArrText == <<"[", "]">>
\* {"nodes":[],"links":[]}
GraphText == ObjText(<<Member(W_nodes, EmptyArrText), Member(W_links, EmptyArrText)>>)
\* {"custom_nodes":[],"models":[]}
ReqText ==
  ObjText(<<Member(W_custom_nodes, EmptyArrText), Member(W_models, EmptyArrText)>>)
\* {"workflow":{"nodes":[],"links":[]},"requirements":{"custom_nodes":[],"models":[]}}
CanonicalText == ObjText(<<Member(W_workflow, GraphText), Member(W_requirements, ReqText)>>)

\* {"workflow":{"a":"}}"}}: an anchored object whose string holds braces
BracesInStringText ==
  ObjText(<<Member(W_workflow, ObjText(<<Member(<<"a">>, Q(<<"}", "}">>))>>))>>)
\* {"a":"{}\"\\"}: no anchor key; the string holds braces, an escaped quote
\* and an escaped backslash right before its closing quote
EscapesText == ObjText(<<Member(<<"a">>, Q(<<"{", "}", "\\", "\"", "\\", "\\">>))>>)
\* {"nodes":[{"id":1}]}
NodesText ==
  ObjText(<<Member(W_nodes, <<"[">> \o ObjText(<<Member(<<"i", "d">>, <<"1">>)>>) \o <<"]">>)>>)

Frags ==
  { <<"o", "k", " ">>, MARKER, NodesText, BracesInStringText, EscapesText,
    <<"}">>, <<"{">>, <<"\"">> }

RECURSIVE Concats(_)
Concats(k) ==
  IF k = 0 THEN {<<>>} ELSE {f \o t : f \in Frags, t \in Concats(k - 1)}

FragTexts == UNION {Concats(k) : k \in 0..MaxFrags}

\* Payload objects: each of the keys the repair reads, absent or with one of
\* a few values.
PayloadTexts ==
  { ObjText(<<wf, nd, lk, rq, ot>>) :
      wf \in {<<>>} \cup {Member(W_workflow, v) :
                v \in {GraphText, <<"{", "}">>, <<"n", "u", "l", "l">>, <<"5">>, <<"0">>}},
      nd \in {<<>>, Member(W_nodes, EmptyArrText)},
      lk \in {<<>>, Member(W_links, EmptyArrText), Member(W_links, <<"0">>)},
      rq \in {<<>>} \cup {Member(W_requirements, v) :
                v \in {ReqText, <<"{", "}">>, <<"n", "u", "l", "l">>, <<"7">>}},
      ot \in {<<>>, Member(<<"3">>, <<"{", "}">>)} }

\* ```json\n<payload>\n```
Fenced(t) == FENCE_JSON \o <<"\n">> \o t \o <<"\n">> \o FENCE
FencedTexts == {Fenced(t) : t \in {GraphText, CanonicalText}}

\* Some thoughts {"last_node_id":3,"nodes":[{"id":1}],"links":[]} trailing junk
ScenarioC ==
  <<"t", "h", "o", "u", "g", "h", "t", "s", ".", " ">>
  \o ObjText(<<Member(W_last_node_id, <<"3">>),
               Member(W_nodes, <<"[">> \o ObjText(<<Member(<<"i", "d">>, <<"1">>)>>) \o <<"]">>),
               Member(W_links, EmptyArrText)>>)
  \o <<" ", "j", "u", "n", "k">>

\* {"choices":[{"message":{"content":"{}"}}]}
ChatReplyText ==
  ObjText(<<Member(W_choices,
      <<"[">> \o ObjText(<<Member(W_message, ObjText(<<Member(W_content, Q(<<"{", "}">>))>>))>>)
        \o <<"]">>)>>)

\* {"workflow":{"nodes":[ : an anchored object cut off before its end
TruncatedText ==
  <<"{">> \o Q(W_workflow) \o <<":", "{">> \o Q(W_nodes) \o <<":", "[">>

\* the cut-off object after nothing, after text, after a closed object; and
\* before nothing, before one '}', before a '}' within quotes
TruncatedTexts ==
  {pre \o TruncatedText \o post :
     pre \in {<<>>, <<"a", " ">>, <<"{", "}", " ">>},
     post \in {<<>>, <<"}">>, <<"}", " ", "y">>, <<"\"", "}">>}}

\* Texts of grave accents: one, two, a fence, a tagged fence, the tag, a
\* blank, an empty object
FenceFrags ==
  { <<BT>>, <<BT, BT>>, FENCE, FENCE_JSON, <<"j", "s", "o", "n">>, <<" ">>, <<"{", "}">> }

RECURSIVE FenceConcats(_)
FenceConcats(k) ==
  IF k = 0 THEN {<<>>} ELSE {f \o t : f \in FenceFrags, t \in FenceConcats(k - 1)}

FenceTexts == UNION {FenceConcats(k) : k \in 0..MaxFrags}

Texts ==
  FragTexts \cup PayloadTexts \cup FencedTexts \cup TruncatedTexts \cup FenceTexts
    \cup {ScenarioC, ChatReplyText}

(***************************************************************************)
(* Inputs: response bodies of the streaming endpoint                       *)
(***************************************************************************)

\* the most lines of a body put together from NoiseLines
MaxLines == 2
\* the largest chunk the transport delivers, next to the whole rest at once
MaxChunk == 2

LF == <<"\n">>
CRLF == <<"\r", "\n">>

\* the characters of a JSON string literal for one character of the text
EscChar(c) ==
  CASE c = "\"" -> <<"\\", "\"">>
    [] c = "\\" -> <<"\\", "\\">>
    [] c = "\n" -> <<"\\", "n">>
    [] OTHER -> <<c>>

RECURSIVE EscapeRange(_, _, _)
EscapeRange(str, lo, hi) ==
  IF lo > hi THEN <<>>
  ELSE IF lo = hi THEN EscChar(str[lo])
  ELSE LET mid == (lo + hi) \div 2
       IN  EscapeRange(str, lo, mid) \o EscapeRange(str, mid + 1, hi)

\* the backend's JSON.stringify of a string
JsonQuote(str) == Q(EscapeRange(str, 1, Len(str)))

\* {"type":"<type>","data":"<data>"}
Record(type, data) == ObjText(<<Member(W_type, Q(type)), Member(W_data, JsonQuote(data))>>)

\* "building a simple graph"
Reasoning ==
  <<"b", "u", "i", "l", "d", "i", "n", "g", " ", "a", " ",
    "s", "i", "m", "p", "l", "e", " ", "g", "r", "a", "p", "h">>

\* Lines with their line ends: a token record, a status record, a line that
\* is no JSON (with a two-byte character), a JSON record of another type,
\* the JSON value null, a blank line.
TokenLine == Record(W_token, <<"o", "k", " ">>) \o LF
StatusLine == Record(W_status, <<"s">>) \o CRLF
RawLine == <<B_C3, B_A9>> \o NodesText \o LF
NoiseLines ==
  { TokenLine,
    StatusLine,
    RawLine,
    ObjText(<<Member(W_type, Q(<<"d", "o", "n", "e">>))>>) \o CRLF,
    <<"n", "u", "l", "l">> \o LF,
    <<" ">> \o LF }

RECURSIVE LineSeqs(_)
LineSeqs(k) ==
  IF k = 0 THEN {<<>>} ELSE {l \o t : l \in NoiseLines, t \in LineSeqs(k - 1)}

\* a last line the body ends within, before its line end
PartialLine == <<"}">>

\* Bodies of up to MaxLines lines, the last of which may be the partial line.
NoiseBodies ==
  UNION {LineSeqs(k) : k \in 0..MaxLines}
    \cup {ls \o PartialLine : ls \in UNION {LineSeqs(k) : k \in 0..(MaxLines - 1)}}

\* {"workflow":5,"requirements":7}
WrongTypesText == ObjText(<<Member(W_workflow, <<"5">>), Member(W_requirements, <<"7">>)>>)
\* {"workflow":{"nodes":[],"links":[]},"requirements":{}}
EmptyReqText ==
  ObjText(<<Member(W_workflow, GraphText), Member(W_requirements, <<"{", "}">>)>>)

\* {"3":{"class_type":"K"}}, a graph in API format
ApiText ==
  ObjText(<<Member(<<"3">>,
      ObjText(<<Member(<<"c", "l", "a", "s", "s", "_", "t", "y", "p", "e">>, Q(<<"K">>))>>))>>)

\* null
NullText == <<"n", "u", "l", "l">>

\* {"workflow":{"nodes":[,]}}, which is no JSON
BrokenText ==
  ObjText(<<Member(W_workflow, ObjText(<<Member(W_nodes, <<"[", ",", "]">>)>>))>>)

ScenarioPayloads ==
  {CanonicalText, GraphText, WrongTypesText, EmptyReqText, Fenced(CanonicalText), BrokenText,
   NullText, ObjText(<<Member(<<"a">>, <<"1">>)>>), ApiText}

\* A token stream: the reasoning in one token (when there is any), then the
\* payload in one token, after the marker line (when there is one).
TokenBody(th, sep, pl) ==
  (IF th THEN Record(W_token, THOUGHTS \o <<" ">> \o Reasoning) \o LF ELSE <<>>)
    \o Record(W_token, (IF sep THEN LF \o MARKER \o LF ELSE <<>>) \o pl) \o LF

\* Token streams in the shape the system prompt asks for with each payload,
\* and short of it (no reasoning, no marker) with the canonical payload.
\* a graph, the marker, the same graph: the reasoning quotes the payload
EchoText == <<"x", " ">> \o GraphText \o <<" ">> \o MARKER \o GraphText
\* the marker twice: a graph after the first, more text after the second
MarkerTwiceText == <<"x", " ">> \o MARKER \o GraphText \o MARKER \o <<" ", "y">>

ScenarioBodies ==
  {TokenBody(TRUE, TRUE, pl) : pl \in ScenarioPayloads}
    \cup {TokenBody(th, sep, CanonicalText) : th \in BOOLEAN, sep \in BOOLEAN}
    \cup {Record(W_token, EchoText) \o LF, Record(W_token, MarkerTwiceText) \o LF}

Bodies == NoiseBodies \cup ScenarioBodies

\* {"detail":"Not Found"}
DetailText ==
  ObjText(<<Member(<<"d", "e", "t", "a", "i", "l">>,
                   Q(<<"N", "o", "t", " ", "F", "o", "u", "n", "d">>))>>)

\* Bodies of error responses: the backend's error object, a line of text,
\* a token stream.
ErrorBodies ==
  {DetailText, <<"B", "a", "d", " ", "{", "}">> \o LF, TokenBody(FALSE, FALSE, GraphText)}

\* The responses fetch resolves with: a status code and a body.
Responses ==
  {[status |-> 200, body |-> b] : b \in Bodies}
    \cup {[status |-> s, body |-> b] : s \in {404, 500}, b \in ErrorBodies}

(***************************************************************************)
(* State                                                                   *)
(***************************************************************************)
VARIABLES
  text,         \* the text one of the pure functions is applied to
  tpc,          \* which of them has been applied ("input" before)
  extracted,    \* what extractJson(text) gave
  scanStart,    \* the index of the '{' a brace scan started at
  scanned,      \* the scan's results: endIndex and lastBrace
  validated,    \* what the non-streaming sibling gave for the content text
  parsed,       \* JSON.parse(text), the value the repair step is given
  repaired,     \* what the repair step gave
  chat,         \* what callLocalLlmChat gave for the text as response body
  cleaned       \* the text after the code-fence cleanup

textVars ==
  <<text, tpc, extracted, scanStart, scanned, validated, parsed, repaired, chat, cleaned>>

VARIABLES
  http,         \* the status code of the response
  fetches,      \* how many times the call has issued its request
  body,         \* the bytes of the response body
  hasStatusCb,  \* whether the caller passed onStatusUpdate
  pos,          \* how many bytes of the body reader.read() has delivered
  cuts,         \* how the transport has cut the body so far: "none", "bytes"
                \* (one byte per chunk), "whole" (all in one chunk), "mixed"
  rd,           \* the read loop's variables and the callbacks' calls so far
  pc,           \* the phase of the call
  jsonString,   \* the payload text
  thoughts,     \* the reasoning text
  parsedData,   \* the parsed payload
  result,       \* the returned object
  err,          \* the phase that threw
  message       \* the message of the Error thrown

streamVars ==
  <<http, fetches, body, hasStatusCb, pos, cuts, rd, pc, jsonString, thoughts, parsedData, result,
    err, message>>

\* Two calls of generateWorkflowLocal in flight: for each, the variables its
\* closure holds.
VARIABLE calls

\* One call of the marker-based generateWorkflowLocal.
VARIABLES
  markerBody,   \* the bytes of the response body
  markerPos,    \* how many of them reader.read() has delivered
  markerCuts,   \* how the transport has cut the body so far, as cuts
  mk,           \* fullText, thoughts, isJsonMode, jsonBuffer, the decoder's
                \* pending byte and the calls of onThoughtsUpdate so far
  markerPc,     \* "reading" while the loop runs, "finished" after the call
  markerOut     \* how the call ended

markerVars == <<markerBody, markerPos, markerCuts, mk, markerPc, markerOut>>

\* One call of callWithRetry.
VARIABLES
  rtRetries,    \* the argument retries
  rtBackoff,    \* the argument backoff
  rtI,          \* the loop index i
  rtPc,         \* "called", "attempt" (operation() is awaited), "waiting"
                \* (wait(waitTime) is awaited), "returned", "thrown"
  rtInvoked,    \* how often operation has been invoked
  rtLast,       \* how the last attempt ended
  rtWaitTime,   \* the last waitTime
  rtOut         \* what the call returned or threw

retryVars ==
  <<rtRetries, rtBackoff, rtI, rtPc, rtInvoked, rtLast, rtWaitTime, rtOut>>

\* One call of executeWorkflow.
VARIABLES
  exWorkflow,   \* the argument workflow
  exPc,         \* "called", "converting" and "posting" (convertToApiFormat and
                \* fetch are awaited), "listening" (the handlers are set),
                \* "returned" (after the return of the catch blocks)
  exApi,        \* apiWorkflow: "converted" or "original"
  exResponse,   \* how the POST of /prompt ended
  exPromptId,   \* promptId
  exCaught,     \* what catch (parseErr) has taken
  exSockets,    \* how many WebSockets have been constructed
  exNodes,      \* nodesById
  relay,        \* generatedImages, ws.readyState, the calls of the callbacks
  exEvents      \* the message events the WebSocket has delivered, in order

execVars ==
  <<exWorkflow, exPc, exApi, exResponse, exPromptId, exCaught, exSockets, exNodes, relay,
    exEvents>>

\* the variables of the services next to the stream consumers
restVars == <<markerVars, retryVars, execVars>>

vars == <<textVars, streamVars, calls, restVars>>

NoValidate == [ok |-> FALSE, json |-> JUndef]
NoRepair == [ok |-> FALSE, err |-> "", workflow |-> JUndef, requirements |-> JUndef]
NoScan == [endIndex |-> -1, lastBrace |-> -1]
NoChat == [ok |-> FALSE, content |-> JUndef, message |-> <<>>]

TextIdle(t, p) ==
  /\ text = t
  /\ tpc = p
  /\ extracted = NotExtracted
  /\ scanStart = -1
  /\ scanned = NoScan
  /\ validated = NoValidate
  /\ parsed = JUndef
  /\ repaired = NoRepair
  /\ chat = NoChat
  /\ cleaned = <<>>

MarkerIdle(b, p) ==
  /\ markerBody = b
  /\ markerPos = 0
  /\ markerCuts = "none"
  /\ mk = MarkerInit
  /\ markerPc = p
  /\ markerOut = Thrown("")

RetryIdle(retries, backoff, p) ==
  /\ rtRetries = retries
  /\ rtBackoff = backoff
  /\ rtI = 0
  /\ rtPc = p
  /\ rtInvoked = 0
  /\ rtLast = NoAttempt
  /\ rtWaitTime = 0
  /\ rtOut = NoAttempt

\* the POST has not settled
NoResponse == [kind |-> "none", status |-> 0, body |-> <<>>]

ExecIdle(workflow, p) ==
  /\ exWorkflow = workflow
  /\ exPc = p
  /\ exApi = "original"
  /\ exResponse = NoResponse
  /\ exPromptId = JUndef
  /\ exCaught = NoError
  /\ exSockets = 0
  /\ exNodes = {}
  /\ relay = RelayInit
  /\ exEvents = <<>>

\* none of the other services is in use
RestIdle ==
  MarkerIdle(<<>>, "off") /\ RetryIdle(0, 0, "off") /\ ExecIdle(JUndef, "off")

StreamIdle(h, b, cb, p) ==
  /\ http = h
  /\ fetches = (IF p = "off" THEN 0 ELSE 1)
  /\ body = b
  /\ hasStatusCb = cb
  /\ pos = 0
  /\ cuts = "none"
  /\ rd = ReadInit
  /\ pc = p
  /\ jsonString = <<>>
  /\ thoughts = <<>>
  /\ parsedData = JUndef
  /\ result = NoResult
  /\ err = ""
  /\ message = <<>>

(***************************************************************************)
(* The pure functions, each applied to a text                              *)
(***************************************************************************)
InitText ==
  /\ \E t \in Texts : TextIdle(t, "input")
  /\ StreamIdle(200, <<>>, FALSE, "off")
  /\ calls = <<>>
  /\ RestIdle

T_Extract ==
  /\ tpc = "input"
  /\ extracted' = extractJson(text)
  /\ tpc' = "extracted"
  /\ UNCHANGED <<text, scanStart, scanned, validated, parsed, repaired, chat, cleaned,
                 streamVars, calls, restVars>>

\* the brace scans, started at any '{' of the text
T_Scan ==
  /\ tpc = "input"
  /\ \E i \in 0..(Len(text) - 1) :
       /\ text[i + 1] = "{"
       /\ scanStart' = i
       /\ scanned' = [endIndex |-> endIndex(text, i), lastBrace |-> lastBrace(text, i)]
  /\ tpc' = "scanned"
  /\ UNCHANGED <<text, extracted, validated, parsed, repaired, chat, cleaned, streamVars,
                 calls, restVars>>

T_Validate ==
  /\ tpc = "input"
  /\ validated' = validateLocal(text)
  /\ tpc' = "validated"
  /\ UNCHANGED <<text, extracted, scanStart, scanned, parsed, repaired, chat, cleaned,
                 streamVars, calls, restVars>>

T_ValidateContent ==
  /\ tpc = "input"
  /\ validated' = validateLocalContent(text)
  /\ tpc' = "validatedContent"
  /\ UNCHANGED <<text, extracted, scanStart, scanned, parsed, repaired, chat, cleaned,
                 streamVars, calls, restVars>>

\* the repair step on the value the text parses to
T_Repair ==
  /\ tpc = "input"
  /\ JsonParse(text).ok
  /\ parsed' = JsonParse(text).v
  /\ repaired' = repair(JsonParse(text).v)
  /\ tpc' = "repaired"
  /\ UNCHANGED <<text, extracted, scanStart, scanned, validated, chat, cleaned, streamVars,
                 calls, restVars>>

\* callLocalLlmChat with the text as the body of a response
T_Chat ==
  /\ tpc = "input"
  /\ \E status \in {200, 404, 500} : chat' = callLocalLlmChat(status, text)
  /\ tpc' = "chatted"
  /\ UNCHANGED <<text, extracted, scanStart, scanned, validated, parsed, repaired, cleaned,
                 streamVars, calls, restVars>>

\* the code-fence cleanup of the located span, with the text as the span
T_Clean ==
  /\ tpc = "input"
  /\ cleaned' = cleanFences(text)
  /\ tpc' = "cleaned"
  /\ UNCHANGED <<text, extracted, scanStart, scanned, validated, parsed, repaired, chat,
                 streamVars, calls, restVars>>

NextText ==
  T_Extract \/ T_Scan \/ T_Validate \/ T_ValidateContent \/ T_Repair \/ T_Chat \/ T_Clean

SpecText == InitText /\ [][NextText]_vars

(***************************************************************************)
(* generateWorkflowLocal (src/unnamed/part_001) on a response body         *)
(***************************************************************************)
Init ==
  /\ \E r \in Responses, cb \in BOOLEAN : StreamIdle(r.status, r.body, cb, "reading")
  /\ TextIdle(<<>>, "off")
  /\ calls = <<>>
  /\ RestIdle

\* the sizes the next chunk may have when left bytes are still to come
ChunkSizes(left) == {n \in (1..MaxChunk) \cup {left} : n <= left}

\* how the body has been cut once a chunk of n bytes has followed
CutsAfter(n) ==
  IF n = Len(body) THEN "whole"
  ELSE IF n = 1 /\ cuts \in {"none", "bytes"} THEN "bytes"
  ELSE "mixed"

\* reader.read() gives a chunk: one pass of the read loop
ReadChunk ==
  /\ pc = "reading"
  /\ pos < Len(body)
  /\ \E n \in ChunkSizes(Len(body) - pos) :
       /\ rd' = onChunk(rd, SubSeq(body, pos + 1, pos + n), hasStatusCb)
       /\ pos' = pos + n
       /\ cuts' = CutsAfter(n)
  /\ UNCHANGED <<http, fetches, body, hasStatusCb, pc, jsonString, thoughts, parsedData, result, err,
                 message>>
  /\ UNCHANGED <<textVars, calls, restVars>>

\* (mutant) the loop breaks as soon as a chunk has come
ReadDoneEarly ==
  /\ pc = "reading"
  /\ pos > 0
  /\ pc' = "ended"
  /\ UNCHANGED <<http, fetches, body, hasStatusCb, pos, cuts, rd, jsonString, thoughts,
                 parsedData, result, err, message>>
  /\ UNCHANGED <<textVars, calls, restVars>>

\* reader.read() gives done: the loop breaks
ReadDone ==
  /\ pc = "reading"
  /\ pos = Len(body)
  /\ pc' = "ended"
  /\ UNCHANGED <<http, fetches, body, hasStatusCb, pos, cuts, rd, jsonString, thoughts, parsedData,
                 result, err, message>>
  /\ UNCHANGED <<textVars, calls, restVars>>

\* Phase 2: extractJson and the split of the thoughts from the payload
Extract ==
  /\ pc = "ended"
  /\ LET x == extractJson(rd.fullText)
     IN  IF x.ok
         THEN /\ jsonString' = x.v
              /\ thoughts' = thoughtsOf(rd.fullText, x.v)
              /\ pc' = "extracted"
              /\ UNCHANGED <<err, message>>
         ELSE /\ pc' = "failed"
              /\ err' = "extraction"
              /\ message' = MSG_NO_JSON
              /\ UNCHANGED <<jsonString, thoughts>>
  /\ UNCHANGED <<http, fetches, body, hasStatusCb, pos, cuts, rd, parsedData, result>>
  /\ UNCHANGED <<textVars, calls, restVars>>

\* Phase 3: the code fences removed, JSON.parse
Parse ==
  /\ pc = "extracted"
  /\ jsonString' = cleanFences(jsonString)
  /\ LET r == JsonParse(cleanFences(jsonString))
     IN  IF r.ok
         THEN /\ parsedData' = r.v
              /\ pc' = "parsed"
              /\ UNCHANGED <<err, message>>
         ELSE /\ pc' = "failed"
              /\ err' = "syntax"
              /\ \E m \in SyntaxErrorMessages(cleanFences(jsonString)) :
                   message' = MSG_SYNTAX \o m
              /\ UNCHANGED parsedData
  /\ UNCHANGED <<http, fetches, body, hasStatusCb, pos, cuts, rd, thoughts, result>>
  /\ UNCHANGED <<textVars, calls, restVars>>

\* Phase 4: the repair and the return
Repair ==
  /\ pc = "parsed"
  /\ LET f == repair(parsedData)
     IN  IF f.ok
         THEN /\ result' = Returned(thoughts, f).result
              /\ pc' = "done"
              /\ UNCHANGED <<err, message>>
         ELSE /\ pc' = "failed"
              /\ err' = f.err
              /\ message' = IF f.err = "structure" THEN MSG_STRUCTURE ELSE MSG_TYPE_ERROR
              /\ UNCHANGED result
  /\ UNCHANGED <<http, fetches, body, hasStatusCb, pos, cuts, rd, jsonString, thoughts, parsedData>>
  /\ UNCHANGED <<textVars, calls, restVars>>

Next == ReadChunk \/ ReadDone \/ Extract \/ Parse \/ Repair

Spec == Init /\ [][Next]_vars

\* the message of the error a failed read rejects with (the engine's wording)
MSG_NETWORK == <<"network error">>

\* (mutant) a failed read makes the call issue its request again and read the
\* new response from its start
ReadFailRetries ==
  /\ pc = "reading"
  /\ fetches = 1
  /\ fetches' = 2
  /\ pos' = 0
  /\ cuts' = "none"
  /\ UNCHANGED <<http, body, hasStatusCb, rd, pc, jsonString, thoughts, parsedData, result,
                 err, message>>
  /\ UNCHANGED <<textVars, calls, restVars>>

\* reader.read() rejects, before the first chunk or after some: the error
\* leaves the loop, reaches the catch of the function and is thrown again
ReadFail ==
  /\ pc = "reading"
  /\ pc' = "failed"
  /\ err' = "network"
  /\ message' = MSG_NETWORK
  /\ UNCHANGED <<http, fetches, body, hasStatusCb, pos, cuts, rd, jsonString, thoughts,
                 parsedData, result>>
  /\ UNCHANGED <<textVars, calls, restVars>>

\* the call on a transport that may fail a read
NextLive == Next \/ ReadFail

\* A step out of phase p into one of the phases in next.  The steps of
\* NextLive out of "ended", "extracted" and "parsed" are those of Extract, of
\* Parse and of Repair, each of which can be taken in every state of its
\* phase (it returns or it throws).
Leaves(p, next) == pc = p /\ pc' \in next

\* Once reader.read() has reported the end, the rest of the function runs
\* without waiting for anything: each of its phases is taken when it can be.
\* Nothing is assumed of the transport.
SpecLive ==
  /\ Init
  /\ [][NextLive]_vars
  /\ WF_pc(Leaves("ended", {"extracted", "failed"}))
  /\ WF_pc(Leaves("extracted", {"parsed", "failed"}))
  /\ WF_pc(Leaves("parsed", {"done", "failed"}))

(***************************************************************************)
(* Properties of the pure functions, checked under SpecText                *)
(***************************************************************************)
Chars(s) == {s[i] : i \in 1..Len(s)}

\* the value of {"nodes":[],"links":[]}
GraphValue == JObj({<<W_nodes, JArr(<<>>)>>, <<W_links, JArr(<<>>)>>})
\* the value of {"custom_nodes":[],"models":[]}
EmptyRequirements == JObj({<<W_custom_nodes, JArr(<<>>)>>, <<W_models, JArr(<<>>)>>})

\* The object JSON.parse reads at the '{' the scan started from.
ScannedObject == ParseValue(text, scanStart + 1)

\* C3: started at the '{' that opens a well-formed JSON object, the brace
\* scan of extractJson and the one of extractContentFromText both return the
\* index of that object's closing '}', whatever braces, escaped quotes and
\* escaped backslashes its strings hold.
C3_ScanFindsMatchingClose ==
  (tpc = "scanned" /\ ScannedObject.ok) =>
    /\ scanned.endIndex = ScannedObject.n - 2
    /\ scanned.lastBrace = ScannedObject.n - 2

\* A scan over an object with a string holding braces, an escaped quote and
\* an escaped backslash, followed by more text with a '}' in it.
C3_Witness ==
  /\ tpc = "scanned"
  /\ ScannedObject.ok
  /\ scanned.endIndex = ScannedObject.n - 2
  /\ \E p \in ScannedObject.v.o :
       p[2].t = "str" /\ {"{", "}", "\"", "\\"} \subseteq Chars(p[2].s)
  /\ "}" \in Chars(Substring(text, ScannedObject.n - 1, Len(text)))

\* The text between the first marker and the next one (or the end).
AfterFirstMarker ==
  LET m == IndexOf(text, MARKER)
      after == Substring(text, m + Len(MARKER), Len(text))
      m2 == IndexOf(after, MARKER)
  IN  IF m2 = -1 THEN after ELSE Substring(after, 0, m2)

\* The least index at which any anchor key opener occurs, -1 if none does.
MinAnchor ==
  LET hits == {i \in 0..(Len(text) - 1) :
                 \E k \in DOMAIN patterns : StartsWithAt(text, patterns[k], i)}
  IN  IF hits = {} THEN -1 ELSE Min(hits)

\* C4: whenever the text holds the marker, extractJson returns the trimmed
\* text after the marker, by the marker strategy, whether or not an anchor
\* key opener occurs and wherever it does.
C4_MarkerTakesPrecedence ==
  (tpc = "extracted" /\ Includes(text, MARKER)) =>
    /\ extracted.ok
    /\ extracted.by = "marker"
    /\ extracted.v = Trim(AfterFirstMarker)

\* The marker strategy was taken although a balanced anchored object stands
\* before the marker.
C4_Witness ==
  /\ tpc = "extracted"
  /\ Includes(text, MARKER)
  /\ MinAnchor > -1
  /\ MinAnchor < IndexOf(text, MARKER)
  /\ ParseValue(text, MinAnchor + 1).ok
  /\ extracted.by = "marker"

\* The one object of a text whose only '{' characters are inside a
\* well-formed object: found, and the object's first index and the index
\* after its last.
OnlySpan ==
  LET f == IndexOf(text, <<"{">>)
      r == IF f > -1 THEN ParseValue(text, f + 1) ELSE PFail
  IN  [found |-> r.ok /\ "{" \notin Chars(Substring(text, r.n - 1, Len(text))),
       from |-> f, to |-> r.n - 1]

NoAnchor == \A k \in DOMAIN patterns : ~Includes(text, patterns[k])

\* no marker, no anchor key opener, exactly one balanced top-level span
C6_Case ==
  /\ tpc = "extracted"
  /\ ~Includes(text, MARKER)
  /\ NoAnchor
  /\ OnlySpan.found

\* C6 as claimed: in that case extraction succeeds and the payload is
\* exactly the span.
C6_PayloadIsTheSpan ==
  C6_Case =>
    /\ extracted.ok
    /\ extracted.v = Substring(text, OnlySpan.from, OnlySpan.to)

\* C6 as amended: in that case extraction succeeds and the payload runs from
\* the span's '{' to the last '}' of the whole text; it is the span itself
\* when no '}' follows the span.
C6_PayloadIsFirstToLastBrace ==
  C6_Case =>
    /\ extracted.ok
    /\ extracted.by = "fallback"
    /\ extracted.v = Substring(text, OnlySpan.from, LastIndexOf(text, <<"}">>) + 1)
    /\ "}" \notin Chars(Substring(text, OnlySpan.to, Len(text)))
         => extracted.v = Substring(text, OnlySpan.from, OnlySpan.to)

\* The fallback ran on a span with a '}' inside a string, text before it and
\* text without braces after it.
C6_Witness ==
  /\ C6_Case
  /\ extracted.ok
  /\ OnlySpan.from > 0
  /\ OnlySpan.to < Len(text)
  /\ "}" \notin Chars(Substring(text, OnlySpan.to, Len(text)))
  /\ extracted.v = EscapesText

\* C7: without a marker, when an anchor key opener occurs and a well-formed
\* object starts at the least anchor offset, the payload is exactly that
\* object: it starts at the least offset over all anchors present and ends
\* at the matching '}', leaving out the text before and the text after.
C7_AnchoredPayloadIsTheObject ==
  (/\ tpc = "extracted"
   /\ ~Includes(text, MARKER)
   /\ MinAnchor > -1
   /\ ParseValue(text, MinAnchor + 1).ok) =>
    /\ extracted.ok
    /\ extracted.by = "anchor"
    /\ extracted.v = Substring(text, MinAnchor, ParseValue(text, MinAnchor + 1).n - 1)

\* Two anchors occur, the one listed later in patterns first in the text,
\* with text before the object and text after it.
C7_Witness ==
  /\ tpc = "extracted"
  /\ ~Includes(text, MARKER)
  /\ MinAnchor > 0
  /\ ParseValue(text, MinAnchor + 1).ok
  /\ ParseValue(text, MinAnchor + 1).n - 1 < Len(text)
  /\ IndexOf(text, patterns[2]) = MinAnchor
  /\ IndexOf(text, patterns[1]) > MinAnchor
  /\ extracted.by = "anchor"

\* C5: the repair step keeps the workflow W and the requirements R of a
\* parsed object that has both (as objects); wraps a parsed object with
\* nodes and links arrays and no workflow key whole, with the default
\* requirements; and is idempotent on its own result.
C5_RepairLaws ==
  tpc = "repaired" =>
    /\ (/\ parsed.t = "obj"
        /\ Get(parsed, W_workflow).t = "obj"
        /\ Get(parsed, W_requirements).t = "obj") =>
         /\ repaired.ok
         /\ repaired.workflow = Get(parsed, W_workflow)
         /\ repaired.requirements = Get(parsed, W_requirements)
    /\ (/\ parsed.t = "obj"
        /\ ~HasKey(parsed, W_workflow)
        /\ Get(parsed, W_nodes).t = "arr"
        /\ Get(parsed, W_links).t = "arr") =>
         /\ repaired.ok
         /\ repaired.workflow = parsed
         /\ repaired.requirements = EmptyRequirements
    /\ repaired.ok =>
         repair(JObj({<<W_workflow, repaired.workflow>>,
                      <<W_requirements, repaired.requirements>>})) = repaired

\* The repair step wrapped a raw graph.
C5_Witness ==
  /\ tpc = "repaired"
  /\ parsed = GraphValue
  /\ repaired.ok
  /\ repaired.workflow = GraphValue

C8_Case ==
  /\ tpc \in {"validated", "validatedContent"}
  /\ text = Fenced(GraphText)

C22_Case ==
  /\ tpc = "extracted"
  /\ ~Includes(text, MARKER)
  /\ MinAnchor > -1
  /\ ScanLoop(text, ScanInit, MinAnchor, Len(text)).found = -1

\* C22: in that case extractJson goes on to the fallback: it returns the
\* text from the first '{' of the whole text to the last '}' of the whole
\* text, and throws only when no '}' follows that first '{'.
C22_UnbalancedAnchorFallsBack ==
  C22_Case =>
    LET f == IndexOf(text, <<"{">>)
        l == LastIndexOf(text, <<"}">>)
    IN  IF l > f
        THEN /\ extracted.ok
             /\ extracted.by = "fallback"
             /\ extracted.v = Substring(text, f, l + 1)
        ELSE ~extracted.ok

\* the scan from the anchor found no end, and the fallback gave a span that
\* starts at a '{' before the anchor and ends at a '}' after it
C22_Witness ==
  /\ C22_Case
  /\ extracted.ok
  /\ IndexOf(text, <<"{">>) < MinAnchor
  /\ LastIndexOf(text, <<"}">>) > MinAnchor
  /\ extracted.v = text

\* the scan from the anchor found no end and no '}' follows the first '{':
\* extractJson has thrown
C22_WitnessThrow ==
  /\ C22_Case
  /\ ~extracted.ok

\* C25: the code-fence cleanup is idempotent: applied to its own result it
\* changes nothing.
C25_CleanupIsIdempotent ==
  tpc = "cleaned" => cleanFences(cleaned) = cleaned

\* the cleanup took a tagged fence out from between grave accents, which
\* brought three of them together, and took those out too
C25_Witness ==
  /\ tpc = "cleaned"
  /\ text = <<BT, BT>> \o FENCE_JSON \o <<BT>>
  /\ cleaned = <<>>

\* the cleanup took the fences off a fenced payload
C25_WitnessFenced ==
  /\ tpc = "cleaned"
  /\ text = Fenced(GraphText)
  /\ cleaned = GraphText

(***************************************************************************)
(* Two calls of generateWorkflowLocal whose reads interleave               *)
(***************************************************************************)

\* the bodies of the two calls: one line, or a line and a partial line
PairBodies == {TokenLine, StatusLine, RawLine, RawLine \o PartialLine, TokenLine \o PartialLine}

\* a call before its first read
NewCall(b, cb) ==
  [body |-> b, hasStatusCb |-> cb, pos |-> 0, rd |-> ReadInit, pc |-> "reading",
   outcome |-> Thrown("")]

\* the first call passes onStatusUpdate, the second does not
InitPair ==
  /\ calls \in {<<NewCall(a, TRUE), NewCall(b, FALSE)>> : a \in PairBodies, b \in PairBodies}
  /\ TextIdle(<<>>, "off")
  /\ StreamIdle(200, <<>>, FALSE, "off")
  /\ RestIdle

\* (mutant) buffer is one variable of the module: the second call reads what
\* the first call left in it
closureSharedBuffer(cs, i) == [cs[i].rd EXCEPT !.buffer = cs[1].rd.buffer]

\* the decoder, buffer and fullText call i reads: those of its own closure
closureOf(cs, i) == cs[i].rd

\* reader.read() of call i gives a chunk
P_ReadChunk(i) ==
  /\ calls[i].pc = "reading"
  /\ calls[i].pos < Len(calls[i].body)
  /\ \E n \in ChunkSizes(Len(calls[i].body) - calls[i].pos) :
       calls' = [calls EXCEPT
         ![i].rd = onChunk(closureOf(calls, i),
                           SubSeq(calls[i].body, calls[i].pos + 1, calls[i].pos + n),
                           calls[i].hasStatusCb),
         ![i].pos = @ + n]
  /\ UNCHANGED <<textVars, streamVars, restVars>>

\* reader.read() of call i gives done: call i goes through its last phases
P_Finish(i) ==
  /\ calls[i].pc = "reading"
  /\ calls[i].pos = Len(calls[i].body)
  /\ calls' = [calls EXCEPT ![i].pc = "finished",
                            ![i].outcome = finish(closureOf(calls, i).fullText)]
  /\ UNCHANGED <<textVars, streamVars, restVars>>

NextPair == \E i \in {1, 2} : P_ReadChunk(i) \/ P_Finish(i)

SpecPair == InitPair /\ [][NextPair]_vars

(***************************************************************************)
(* The marker-based generateWorkflowLocal on a response body               *)
(***************************************************************************)

\* Response bodies: the reasoning, the marker line and a payload
MarkerText(pl) == THOUGHTS \o <<" ">> \o Reasoning \o LF \o MARKER \o LF \o pl

\* Bodies in the shape the system prompt asks for, each with one payload;
\* the marker twice; no marker, with and without a brace span; a two-byte
\* character; the marker at the very end.
MarkerBodies ==
  {MarkerText(pl) : pl \in {CanonicalText, GraphText, ApiText, NullText, BrokenText,
                            Fenced(GraphText), <<"5">>}}
    \cup { MarkerTwiceText,
           THOUGHTS \o <<" ", "x", " ">> \o GraphText \o <<" ", "y">>,
           <<"o", "k", " ">>,
           <<B_C3, B_A9>> \o MARKER \o GraphText,
           <<"x">> \o MARKER }

InitMarker ==
  /\ \E b \in MarkerBodies : MarkerIdle(b, "reading")
  /\ TextIdle(<<>>, "off")
  /\ StreamIdle(200, <<>>, FALSE, "off")
  /\ calls = <<>>
  /\ RetryIdle(0, 0, "off")
  /\ ExecIdle(JUndef, "off")

\* The sizes the next chunk may have when left bytes are still to come: one
\* byte, or all that is left.  (Before the marker is seen every chunk gives a
\* call of onThoughtsUpdate, so each way of cutting has its own history.)
MarkerChunkSizes(left) == {1, left}

\* how the body has been cut once a chunk of n bytes has followed
MarkerCutsAfter(n) ==
  IF n = Len(markerBody) THEN "whole"
  ELSE IF n = 1 /\ markerCuts \in {"none", "bytes"} THEN "bytes"
  ELSE "mixed"

\* reader.read() gives a chunk: one pass of the read loop
M_ReadChunk ==
  /\ markerPc = "reading"
  /\ markerPos < Len(markerBody)
  /\ \E n \in MarkerChunkSizes(Len(markerBody) - markerPos) :
       /\ mk' = markerChunk(mk, SubSeq(markerBody, markerPos + 1, markerPos + n))
       /\ markerPos' = markerPos + n
       /\ markerCuts' = MarkerCutsAfter(n)
  /\ UNCHANGED <<markerBody, markerPc, markerOut>>
  /\ UNCHANGED <<textVars, streamVars, calls, retryVars, execVars>>

\* reader.read() gives done: the fallback, the cleanup, the parse, the
\* repair and the return or the throw, which run without a pause
M_Finish ==
  /\ markerPc = "reading"
  /\ markerPos = Len(markerBody)
  /\ mk' = [mk EXCEPT !.thoughts = markerFallback(mk).thoughts]
  /\ markerOut' = markerFinish(mk)
  /\ markerPc' = "finished"
  /\ UNCHANGED <<markerBody, markerPos, markerCuts>>
  /\ UNCHANGED <<textVars, streamVars, calls, retryVars, execVars>>

NextMarker == M_ReadChunk \/ M_Finish

SpecMarker == InitMarker /\ [][NextMarker]_vars

(***************************************************************************)
(* callWithRetry on an operation that resolves or rejects                  *)
(***************************************************************************)

\* the largest value of retries a call is made with
MaxRetries == 3

\* backoff: number = 1000
DefaultBackoff == 1000

\* what error.status may be: absent, the four codes, other codes, a text
ErrorStatuses ==
  {JUndef, JStr(<<"5", "0", "3">>)}
    \cup {JNum(<<"5", "0", d>>) : d \in {"0", "1", "2", "3", "4"}}
    \cup {JNum(<<"4", "2", "9">>), JNum(<<"4", "0", "0">>)}

\* what error.message may be: absent, empty, each of the four texts alone or
\* within a longer message, one of them in lower case, another text
ErrorMessages ==
  {JUndef, JStr(<<>>), JStr(FETCH_FAILED), JStr(INTERNAL_SERVER_ERROR),
   JStr(<<"T", "y", "p", "e", "E", "r", "r", "o", "r", ":", " ">> \o FETCH_FAILED),
   JStr(<<"m", "o", "d", "e", "l", " ">> \o OVERLOADED \o <<".">>),
   JStr(<<"5", "0", "3", " ">> \o SERVICE_UNAVAILABLE),
   JStr(<<"s", "e", "r", "v", "i", "c", "e", " ",
          "u", "n", "a", "v", "a", "i", "l", "a", "b", "l", "e">>),
   JStr(<<"b", "a", "d", " ", "k", "e", "y">>)}

\* how one invocation of operation may end
Attempts ==
  {RetryValue(v) : v \in {"a", "b"}}
    \cup {RetryError(st, m) : st \in ErrorStatuses, m \in ErrorMessages}

InitRetry ==
  /\ \E r \in 0..MaxRetries : RetryIdle(r, DefaultBackoff, "called")
  /\ MarkerIdle(<<>>, "off")
  /\ ExecIdle(JUndef, "off")
  /\ TextIdle(<<>>, "off")
  /\ StreamIdle(200, <<>>, FALSE, "off")
  /\ calls = <<>>

\* for (...; i < retries; ...) with the index at i: a pass of the loop invokes
\* operation() and awaits it; after the loop comes the throw
LoopTest(i) ==
  /\ rtI' = i
  /\ IF i < rtRetries
     THEN rtPc' = "attempt" /\ rtInvoked' = rtInvoked + 1 /\ rtOut' = rtOut
     ELSE rtPc' = "thrown" /\ rtInvoked' = rtInvoked /\ rtOut' = MaxRetriesError

\* callWithRetry is called: let i = 0 and the first test
R_Call ==
  /\ rtPc = "called"
  /\ LoopTest(0)
  /\ UNCHANGED <<rtRetries, rtBackoff, rtLast, rtWaitTime>>
  /\ UNCHANGED <<textVars, streamVars, calls, markerVars, execVars>>

\* operation() settles: the return, or the catch block up to its throw or
\* its await
R_Settle ==
  /\ rtPc = "attempt"
  /\ \E outcome \in Attempts :
       /\ rtLast' = outcome
       /\ IF outcome.ok
          THEN rtPc' = "returned" /\ rtOut' = outcome /\ rtWaitTime' = rtWaitTime
          ELSE IF isRetryable(outcome) /\ rtI < rtRetries - 1
          THEN /\ \E jitter \in Jitters :
                    rtWaitTime' = waitTimeOf(rtBackoff, rtI, jitter)
               /\ rtPc' = "waiting"
               /\ rtOut' = rtOut
          ELSE rtPc' = "thrown" /\ rtOut' = outcome /\ rtWaitTime' = rtWaitTime
  /\ UNCHANGED <<rtRetries, rtBackoff, rtI, rtInvoked>>
  /\ UNCHANGED <<textVars, streamVars, calls, markerVars, execVars>>

\* the timer of wait(waitTime) fires: continue, which runs i++ and the test
R_Wake ==
  /\ rtPc = "waiting"
  /\ LoopTest(rtI + 1)
  /\ UNCHANGED <<rtRetries, rtBackoff, rtLast, rtWaitTime>>
  /\ UNCHANGED <<textVars, streamVars, calls, markerVars, execVars>>

NextRetry == R_Call \/ R_Settle \/ R_Wake

SpecRetry == InitRetry /\ [][NextRetry]_vars

(***************************************************************************)
(* executeWorkflow against a server that answers the POST and then sends   *)
(* messages                                                                *)
(***************************************************************************)

\* the most message events a WebSocket delivers
MaxMessages == 3

W_filename == <<"f", "i", "l", "e", "n", "a", "m", "e">>
ArrText(xs) == <<"[">> \o JoinComma(xs) \o <<"]">>
\* {"filename":"c"}
ImageText(c) == ObjText(<<Member(W_filename, Q(<<c>>))>>)
\* the prompt id the server gives, and that of another client's prompt
PID == <<"p", "1">>
OtherPID == <<"p", "2">>

\* workflows: a graph with node 3 titled K, and an API workflow with node 4
\* of class C
GraphWorkflow ==
  JObj({<<W_nodes, JArr(<<JObj({<<W_id, JNum(<<"3">>)>>, <<W_title, JStr(<<"K">>)>>})>>)>>,
        <<W_links, JArr(<<>>)>>})
ApiWorkflow == JObj({<<<<"4">>, JObj({<<W_class_type, JStr(<<"C">>)>>})>>})
Workflows == {GraphWorkflow, ApiWorkflow}

\* {"error":{"type":"t"},"node_errors":{...}} with the node errors given
RejectionText(nodeErrorsText) ==
  ObjText(<<Member(W_error, ObjText(<<Member(W_type, Q(<<"t">>))>>)),
            Member(W_node_errors, nodeErrorsText)>>)
\* "k":{"errors":[{"message":"m"},...],"class_type":"c"}
NodeErrorText(k, ms, c) ==
  Member(k, ObjText(<<Member(W_errors,
                             ArrText([j \in 1..Len(ms) |->
                                        ObjText(<<Member(W_message, Q(ms[j]))>>)])),
                      Member(W_class_type, Q(c))>>))

\* Bodies of responses that are not ok: two failing nodes, the later one
\* first; one failing node; no failing node; a node that is null; an error
\* without node_errors; no JSON
RejectedBodies ==
  {RejectionText(ObjText(<<NodeErrorText(<<"1", "2">>, <<<<"x">>>>, <<"C">>),
                           NodeErrorText(<<"3">>, <<<<"y">>, <<"z">>>>, <<"K">>)>>)),
   RejectionText(ObjText(<<NodeErrorText(<<"3">>, <<<<"y">>>>, <<"K">>)>>)),
   RejectionText(ObjText(<<>>)),
   RejectionText(ObjText(<<Member(<<"3">>, NullText)>>)),
   ObjText(<<Member(W_error, Q(<<"e">>))>>),
   <<"o", "o", "p", "s">>}

\* Bodies of ok responses: a prompt id; none; an error; null; no JSON
AcceptedBodies ==
  {ObjText(<<Member(W_prompt_id, Q(PID))>>),
   ObjText(<<>>),
   ObjText(<<Member(W_error, ObjText(<<Member(W_type, Q(<<"t">>))>>)),
             Member(W_message, Q(<<"m">>))>>),
   NullText,
   <<"<">>}

\* How the POST ends: new URL or fetch throws a TypeError, or a response
PromptResponses ==
  {[kind |-> "TypeError", status |-> 0, body |-> <<>>]}
    \cup {[kind |-> "response", status |-> 200, body |-> b] : b \in AcceptedBodies}
    \cup {[kind |-> "response", status |-> s, body |-> b] :
            s \in {400, 500}, b \in RejectedBodies}

\* JSON.parse of each body, computed once
BodyParse == [b \in AcceptedBodies \cup RejectedBodies |-> JsonParse(b)]

\* {"type":type,"data":{...}}
MessageText(type, members) ==
  ObjText(<<Member(W_type, Q(type)), Member(W_data, ObjText(members))>>)
ExecutingText(id, nodeText) ==
  MessageText(W_executing, <<Member(W_node, nodeText), Member(W_prompt_id, Q(id))>>)
ProgressText(id, value, max) ==
  MessageText(W_progress,
              <<Member(W_value, value), Member(W_max, max), Member(W_prompt_id, Q(id))>>)
ExecutedText(idMembers, outputText) ==
  MessageText(W_executed, <<Member(W_output, outputText)>> \o idMembers)
ImagesText(cs) ==
  ObjText(<<Member(W_images, ArrText([j \in 1..Len(cs) |-> ImageText(cs[j])]))>>)

\* The texts of message events: for the prompt and for another one, the end
\* of the execution, a node, a progress, images (one, two, none); images
\* without a prompt id; a message without data
EventTexts ==
  {ExecutingText(PID, NullText), ExecutingText(OtherPID, NullText),
   ExecutingText(PID, Q(<<"3">>)),
   ProgressText(PID, <<"1">>, <<"4">>), ProgressText(OtherPID, <<"1">>, <<"2">>),
   ExecutedText(<<Member(W_prompt_id, Q(PID))>>, ImagesText(<<"a">>)),
   ExecutedText(<<Member(W_prompt_id, Q(PID))>>, ImagesText(<<"b", "c">>)),
   ExecutedText(<<Member(W_prompt_id, Q(PID))>>, ObjText(<<>>)),
   ExecutedText(<<Member(W_prompt_id, Q(OtherPID))>>, ImagesText(<<"d">>)),
   ExecutedText(<<>>, ImagesText(<<"e">>)),
   ObjText(<<Member(W_type, Q(W_executing))>>)}

\* a message event: text, or binary (a preview image)
Events ==
  {[isString |-> TRUE, data |-> t] : t \in EventTexts}
    \cup {[isString |-> FALSE, data |-> <<>>]}

\* JSON.parse of each text, computed once
EventParse == [t \in EventTexts \cup {<<>>} |-> JsonParse(t)]

InitExec ==
  /\ \E w \in Workflows : ExecIdle(w, "called")
  /\ MarkerIdle(<<>>, "off")
  /\ RetryIdle(0, 0, "off")
  /\ TextIdle(<<>>, "off")
  /\ StreamIdle(200, <<>>, FALSE, "off")
  /\ calls = <<>>

restOfExec == <<textVars, streamVars, calls, markerVars, retryVars>>

\* executeWorkflow is called: up to the await of convertToApiFormat
E_Call ==
  /\ exPc = "called"
  /\ relay' = [relay EXCEPT !.calls = Append(@, CONVERTING)]
  /\ exPc' = "converting"
  /\ UNCHANGED <<exWorkflow, exApi, exResponse, exPromptId, exCaught, exSockets, exNodes,
                 exEvents>>
  /\ UNCHANGED restOfExec

\* convertToApiFormat settles, with the converted workflow or not: up to the
\* await of fetch
E_Convert ==
  /\ exPc = "converting"
  /\ \E a \in {"converted", "original"} : exApi' = a
  /\ exPc' = "posting"
  /\ UNCHANGED <<exWorkflow, exResponse, exPromptId, exCaught, exSockets, exNodes, relay,
                 exEvents>>
  /\ UNCHANGED restOfExec

\* SCHRITT 3 after promptId is set: new WebSocket(wsUrl) throws, or the
\* handlers are set on it
openSocket(promptId, throws) ==
  /\ exPromptId' = promptId
  /\ exCaught' = exCaught
  /\ IF throws
     THEN /\ relay' = [relay EXCEPT
                         !.calls = Append(@, ErrorCall(JsError("SecurityError", <<"insecure">>)))]
          /\ exPc' = "returned"
          /\ exNodes' = exNodes
     ELSE /\ relay' = [relay EXCEPT !.ws = "OPEN"]
          /\ exPc' = "listening"
          /\ exNodes' = nodesByIdOf(exWorkflow)
  /\ exSockets' = exSockets + 1

\* the catch of SCHRITT 2: onError and return
promptFailed(r, net) ==
  /\ relay' = [relay EXCEPT !.calls = Append(@, ErrorCall(errorReported(r.error, net)))]
  /\ exCaught' = r.caught
  /\ exPc' = "returned"
  /\ UNCHANGED <<exPromptId, exSockets, exNodes>>

\* the POST settles: SCHRITT 2 from the await of fetch on, and SCHRITT 3
E_Post ==
  /\ exPc = "posting"
  /\ \E resp \in PromptResponses, net \in {"mixed", "network", "invalid"},
        throws \in BOOLEAN :
       LET r == IF resp.kind = "TypeError" THEN PromptFailed(FetchTypeError, NoError)
                ELSE IF ~IsOk(resp.status)
                THEN notOk(resp.status, resp.body, BodyParse[resp.body])
                ELSE accepted(BodyParse[resp.body])
       IN  /\ exResponse' = resp
           /\ IF r.ok THEN openSocket(r.promptId, throws) ELSE promptFailed(r, net)
  /\ UNCHANGED <<exWorkflow, exApi, exEvents>>
  /\ UNCHANGED restOfExec

\* a message event is dispatched, which happens while the socket is open
E_Message ==
  /\ exPc = "listening"
  /\ relay.ws = "OPEN"
  /\ Len(exEvents) < MaxMessages
  /\ \E event \in Events :
       /\ relay' = onmessage(relay, event.isString, EventParse[event.data],
                             exPromptId, exNodes)
       /\ exEvents' = Append(exEvents, event)
  /\ UNCHANGED <<exWorkflow, exPc, exApi, exResponse, exPromptId, exCaught, exSockets,
                 exNodes>>
  /\ UNCHANGED restOfExec

\* ws.onerror: the connection has failed
E_WsError ==
  /\ exPc = "listening"
  /\ relay.ws = "OPEN"
  /\ relay' = [relay EXCEPT !.calls = Append(@, ErrorCall(WS_ERROR)), !.ws = "CLOSED"]
  /\ UNCHANGED <<exWorkflow, exPc, exApi, exResponse, exPromptId, exCaught, exSockets,
                 exNodes, exEvents>>
  /\ UNCHANGED restOfExec

NextExec == E_Call \/ E_Convert \/ E_Post \/ E_Message \/ E_WsError

SpecExec == InitExec /\ [][NextExec]_vars

(***************************************************************************)
(* Claims about generateWorkflowLocal on a response body, under Spec       *)
(***************************************************************************)

\* how the call has ended
Outcome == [ok |-> pc = "done", err |-> err, result |-> result]

\* how the call ends when the whole body comes in one chunk
InOneChunk == finish(onChunk(ReadInit, body, hasStatusCb).fullText)

\* the body of Scenario A: the reasoning, the marker line, the canonical payload
ScenarioA == TokenBody(TRUE, TRUE, CanonicalText)

\* the text the decoder has given out of the bytes delivered so far
Delivered == decode(<<>>, SubSeq(body, 1, pos)).out

\* the lines of Delivered that have their line end
CompleteLines == LET ls == SplitLines(Delivered) IN SubSeq(ls, 1, Len(ls) - 1)

IsBlank(line) == \A i \in 1..Len(line) : line[i] \in JsWhite

\* the line is a JSON value whose type member is the given type
IsRecordOf(line, type) ==
  LET msg == JsonParse(line) IN msg.ok /\ Get(msg.v, W_type) = JStr(type)

\* not blank, and neither a status record nor a token record
Unrecognized(line) ==
  /\ ~IsBlank(line)
  /\ LET msg == JsonParse(line)
     IN  ~msg.ok \/ Get(msg.v, W_type) \notin {JStr(W_status), JStr(W_token)}

\* not blank, and not a JSON value whose members can be read
Unparsable(line) ==
  /\ ~IsBlank(line)
  /\ LET msg == JsonParse(line) IN ~msg.ok \/ msg.v = JNull

\* JSON whose members can be read, with another type or none
OtherJson(line) == Unrecognized(line) /\ ~Unparsable(line)

\* Whether a line reports to onThoughtsUpdate, and what a reporting line
\* adds to the accumulated text, when raw tells whether it counts as raw
\* token content.
Reports(line, raw) == raw \/ (~IsBlank(line) /\ IsRecordOf(line, W_token))
Adds(line, raw) == IF raw THEN line ELSE ToStr(Get(JsonParse(line).v, W_data))

\* The accumulated text after the first k lines and the texts reported to
\* onThoughtsUpdate by then, when the lines at rawIdx count as raw content.
RECURSIVE ReadOf(_, _, _)
ReadOf(lines, rawIdx, k) ==
  IF k = 0 THEN [fullText |-> <<>>, thoughtsCalls |-> <<>>]
  ELSE LET before == ReadOf(lines, rawIdx, k - 1)
           now == before.fullText \o Adds(lines[k], k \in rawIdx)
       IN  IF Reports(lines[k], k \in rawIdx)
           THEN [fullText |-> now, thoughtsCalls |-> Append(before.thoughtsCalls, now)]
           ELSE before

\* the read loop has accumulated and reported just what the complete lines
\* give when those at rawIdx count as raw content
ReadAs(rawIdx) ==
  LET expected == ReadOf(CompleteLines, rawIdx, Len(CompleteLines))
  IN  /\ rd.fullText = expected.fullText
      /\ rd.thoughtsCalls = expected.thoughtsCalls

\* C1: however the transport cuts the body into chunks, the call ends as it
\* ends when the whole body comes in one chunk: with the same thoughts,
\* workflow and requirements, or with a failure in the same phase.
C1_ChunkingDoesNotChangeOutcome ==
  pc \in {"done", "failed"} => Outcome = InOneChunk

\* a call that got Scenario A's body one byte per chunk has returned
C1_Witness ==
  /\ pc = "done"
  /\ cuts = "bytes"
  /\ body = ScenarioA
  /\ result.workflow = GraphValue

\* C2: for the token stream 'THOUGHTS: <r>', marker, canonical payload, the
\* call returns thoughts equal to <r> and workflow equal to W.
C2_ScenarioA ==
  (pc = "done" /\ body = ScenarioA) =>
    /\ result.thoughts = Reasoning
    /\ result.workflow = GraphValue

\* C9: every returned value has the canonical shape: thoughts a string,
\* workflow an object, requirements an object holding a custom_nodes array
\* and a models array.
C9_CanonicalShape ==
  pc = "done" =>
    /\ result.thoughts \in Seq(Chars(result.thoughts))
    /\ result.workflow.t = "obj"
    /\ result.requirements.t = "obj"
    /\ Get(result.requirements, W_custom_nodes).t = "arr"
    /\ Get(result.requirements, W_models).t = "arr"

\* C10 as stated: every complete non-blank line that is neither a status
\* record nor a token record is appended to the accumulated text and
\* reported to onThoughtsUpdate. (The text and the reports only grow, so
\* they are looked at when the stream has ended.)
C10_UnrecognizedLinesAppended ==
  pc = "ended" =>
    ReadAs({k \in 1..Len(CompleteLines) : Unrecognized(CompleteLines[k])})

\* C10: every complete non-blank line that JSON.parse rejects, or reads as
\* null, is appended to the accumulated text and reported to
\* onThoughtsUpdate; a line that is JSON of another type, or of none, adds
\* nothing and reports nothing.
C10_UnparsableLinesAppended ==
  pc = "ended" =>
    ReadAs({k \in 1..Len(CompleteLines) : Unparsable(CompleteLines[k])})

\* the loop has taken a line that is no JSON and a line that is JSON of
\* another type, and has reported once
C10_Witness ==
  /\ pc = "ended"
  /\ Len(CompleteLines) = 2
  /\ rd.buffer = <<>>
  /\ \E k \in 1..2 : ~JsonParse(CompleteLines[k]).ok /\ ~IsBlank(CompleteLines[k])
  /\ \E k \in 1..2 : OtherJson(CompleteLines[k])
  /\ Len(rd.thoughtsCalls) = 1
  /\ rd.fullText # <<>>

IsPrefix(a, b) == Len(a) <= Len(b) /\ SubSeq(b, 1, Len(a)) = a

\* The complete lines that are token events, in arrival order: the token
\* records and the lines taken as raw token content.
TokenEvents == SelectSeq(CompleteLines, LAMBDA l : Reports(l, Unparsable(l)))

\* the data of the first i token events, one after the other
RECURSIVE ConcatData(_, _)
ConcatData(events, i) ==
  IF i = 0 THEN <<>>
  ELSE ConcatData(events, i - 1) \o Adds(events[i], Unparsable(events[i]))

\* C11: each token event gives exactly one onThoughtsUpdate call, whose
\* argument is the data of all token events up to and including it, in
\* arrival order; so each argument is a prefix of the next, and the last
\* argument is the text the extractor is given.
C11_EachTokenReportsAccumulatedText ==
  LET reported == rd.thoughtsCalls
  IN  /\ \A i \in 1..(Len(reported) - 1) : IsPrefix(reported[i], reported[i + 1])
      /\ reported # <<>> => reported[Len(reported)] = rd.fullText
      /\ pc = "ended" =>
           /\ Len(reported) = Len(TokenEvents)
           /\ \A i \in 1..Len(reported) : reported[i] = ConcatData(TokenEvents, i)

\* the stream of Scenario A has ended: two token events, two reported, the
\* second longer than the first
C11_Witness ==
  /\ pc = "ended"
  /\ body = ScenarioA
  /\ Len(rd.thoughtsCalls) = 2
  /\ rd.thoughtsCalls[1] # rd.thoughtsCalls[2]

\* the body as text
BodyText == decode(<<>>, body).out

\* C12 for generateWorkflowLocal: a response that is not ok makes the call
\* fail with an error that carries the status code and the body text, and
\* nothing of its body is read as stream content.
C12_ErrorResponseFails ==
  ~IsOk(http) =>
    /\ pos = 0
    /\ pc # "done"
    /\ pc = "failed" =>
         /\ Includes(message, <<ToString(http)>>)
         /\ Includes(message, BodyText)

\* C12 for callLocalLlmChat: a response that is not ok makes the call fail
\* with an error that carries the status code and the body text.
C12_ChatErrorResponseFails ==
  tpc = "chatted" =>
    \/ chat.ok /\ chat.content = Get(Get(Get(JsonParse(text).v, W_choices).a[1], W_message), W_content)
    \/ ~chat.ok /\ chat.message \in {<<"SyntaxError">>, <<"TypeError">>}
    \/ /\ ~chat.ok
       /\ \E status \in {404, 500} :
            /\ Includes(chat.message, <<ToString(status)>>)
            /\ Includes(chat.message, text)

\* C13: when the cleaned payload fails to parse, the call fails and the
\* message of the error thrown contains the cleaned string.
C13_SyntaxErrorCarriesString ==
  (pc = "failed" /\ err = "syntax") => Includes(message, jsonString)

\* the accumulated text holds no '{' and no marker
NoBraceNoMarker == "{" \notin Chars(rd.fullText) /\ ~Includes(rd.fullText, MARKER)

\* C14: when the accumulated text holds no '{' and no marker, the call throws
\* the extraction error, returns nothing, and neither parses nor repairs.
C14_NoBraceFailsExtraction ==
  (pc \in {"extracted", "parsed", "done", "failed"} /\ NoBraceNoMarker) =>
    /\ pc = "failed"
    /\ err = "extraction"
    /\ message = MSG_NO_JSON
    /\ result = NoResult
    /\ jsonString = <<>>
    /\ parsedData = JUndef

\* a call whose tokens held text but no '{' has failed
C14_Witness ==
  /\ pc = "failed"
  /\ NoBraceNoMarker
  /\ rd.fullText # <<>>

\* the payload was parsed and the repair rules leave it without a workflow
ParsedWithoutWorkflow ==
  /\ pc \in {"done", "failed"}
  /\ parsedData # JUndef
  /\ ~repair(parsedData).ok

\* C15: a parsed payload without a workflow after the repair rules makes the
\* call fail with the structural error, whose message is not the one of a
\* parse failure; no result with a substituted workflow is returned.
C15_NoWorkflowIsStructuralError ==
  ParsedWithoutWorkflow =>
    /\ pc = "failed"
    /\ err = "structure"
    /\ message = MSG_STRUCTURE
    /\ ~IsPrefix(MSG_SYNTAX, message)
    /\ result = NoResult

\* what a call that runs alone holds after the first n bytes of body b
AloneAfter(b, cb, n) == onChunk(ReadInit, SubSeq(b, 1, n), cb)

\* C16: of two calls whose reads interleave, each holds the accumulated text,
\* the line buffer and the callback calls it holds when it runs alone, and
\* ends as it ends alone.
C16_InterleavedCallsAreIndependent ==
  \A i \in DOMAIN calls :
    /\ calls[i].rd = AloneAfter(calls[i].body, calls[i].hasStatusCb, calls[i].pos)
    /\ calls[i].pc = "finished" =>
         calls[i].outcome =
           finish(AloneAfter(calls[i].body, calls[i].hasStatusCb, Len(calls[i].body)).fullText)

\* both calls are within a line, with different buffers, and the first has
\* accumulated text already
C16_Witness ==
  /\ calls # <<>>
  /\ calls[1].pc = "reading" /\ calls[2].pc = "reading"
  /\ calls[1].rd.buffer # <<>> /\ calls[2].rd.buffer # <<>>
  /\ calls[1].rd.buffer # calls[2].rd.buffer
  /\ calls[1].rd.fullText # <<>>

\* C17: the thoughts of every returned result are a non-empty string: the
\* placeholder when the reasoning text is empty after stripping and trimming,
\* the reasoning text otherwise.
C17_ThoughtsNeverEmpty ==
  pc = "done" =>
    /\ result.thoughts \in Seq(Chars(result.thoughts))
    /\ result.thoughts # <<>>
    /\ result.thoughts = (IF thoughts = <<>> THEN NO_THOUGHTS ELSE thoughts)

\* a call whose stream held the payload and no reasoning has returned the
\* placeholder
C17_Witness ==
  /\ pc = "done"
  /\ thoughts = <<>>
  /\ result.thoughts = NO_THOUGHTS

\* every line of the text delivered, the last one without line end included
AllLines == SplitLines(Delivered)

\* C18: when the stream ends with a non-empty partial line in the buffer,
\* that line gets the handling of a complete line before extraction, so the
\* text the extractor is given holds its content.
C18_PartialLineDrained ==
  pc = "ended" =>
    LET raw == {k \in 1..Len(AllLines) : Unparsable(AllLines[k])}
    IN  rd.fullText = ReadOf(AllLines, raw, Len(AllLines)).fullText

\* the text before the first marker and the text after it
BeforeMarker(t) == SubSeq(t, 1, IndexOf(t, MARKER))
AfterMarker(t) == SubSeq(t, IndexOf(t, MARKER) + Len(MARKER) + 1, Len(t))

\* C19: when the accumulated text holds the marker, once or more, the
\* reasoning is the text before the first marker and the payload is the text
\* after it, both trimmed (the payload before its fences are removed).
C19_SplitAtFirstMarker ==
  (pc = "extracted" /\ Includes(rd.fullText, MARKER)) =>
    /\ thoughts = Trim(BeforeMarker(rd.fullText))
    /\ jsonString = Trim(AfterMarker(rd.fullText))

\* the key is a numeric string
IsNumericKey(k) == k # <<>> /\ \A i \in 1..Len(k) : k[i] \in Digits

\* the parsed payload is an object in API format: no workflow, nodes or links
\* key, and a key that is a numeric string
ParsedApiGraph ==
  /\ parsedData.t = "obj"
  /\ ~HasKey(parsedData, W_workflow)
  /\ ~HasKey(parsedData, W_nodes)
  /\ ~HasKey(parsedData, W_links)
  /\ \E p \in parsedData.o : IsNumericKey(p[1])

\* C20: a parsed object in API format is wrapped whole as the workflow, with
\* the default requirements, and the call succeeds.
C20_ApiGraphIsWrapped ==
  (pc \in {"done", "failed"} /\ ParsedApiGraph) =>
    /\ pc = "done"
    /\ result.workflow = parsedData
    /\ result.requirements = EmptyRequirements

\* the phase changes the function can make
PhaseOrder ==
  { <<"reading", "ended">>, <<"reading", "failed">>,
    <<"ended", "extracted">>, <<"ended", "failed">>,
    <<"extracted", "parsed">>, <<"extracted", "failed">>,
    <<"parsed", "done">>, <<"parsed", "failed">> }

\* what the phases after the stream write, as before they have run
NothingDerived ==
  /\ jsonString = <<>>
  /\ thoughts = <<>>
  /\ parsedData = JUndef
  /\ result = NoResult

\* C23: the call goes through its phases in one order.  Extraction, parse
\* and repair run only after reader.read() has reported the end of the
\* body, each at most once (the phase only moves forward); the call ends
\* either with a returned result or with a thrown error, never both; and the
\* callbacks are invoked only while the stream is read, so never after the
\* outcome.
C23_PhasesInFixedOrder ==
  /\ [][pc' # pc => <<pc, pc'>> \in PhaseOrder]_vars
  /\ [][rd' # rd => (pc = "reading" /\ pc' = "reading")]_vars
  /\ [][(pc \in {"done", "failed"}) => UNCHANGED streamVars]_vars
  /\ [](pc = "reading" => NothingDerived /\ err = "")
  /\ [](pc \in {"ended", "extracted", "parsed", "done"} => pos = Len(body))
  /\ [](pc = "done" => err = "" /\ result # NoResult)
  /\ [](pc = "failed" => err # "" /\ result = NoResult)
  /\ []((pc = "failed" /\ err # "network") => pos = Len(body))

\* a call has read a status record and a token record and has returned
C23_Witness ==
  /\ pc = "done"
  /\ rd.statusCalls # <<>>
  /\ rd.thoughtsCalls # <<>>
  /\ cuts = "mixed"
  /\ result.workflow.t = "obj"

\* the complete line is a status record
IsStatus(line) == ~IsBlank(line) /\ IsRecordOf(line, W_status)

\* the data members of the status records among the complete lines, in order
RECURSIVE StatusData(_, _)
StatusData(lines, k) ==
  IF k = 0 THEN <<>>
  ELSE IF IsStatus(lines[k])
       THEN Append(StatusData(lines, k - 1), Get(JsonParse(lines[k]).v, W_data))
       ELSE StatusData(lines, k - 1)

\* the complete lines that are no status records
WithoutStatus == SelectSeq(CompleteLines, LAMBDA l : ~IsStatus(l))

\* C24: each status record is forwarded to onStatusUpdate with its data,
\* when that callback was passed; it adds nothing to the accumulated text
\* and gives no call of onThoughtsUpdate (both are what the other lines
\* alone give); without the callback nothing is forwarded.  (The calls and
\* the text only grow, so they are looked at when the stream has ended.)
C24_StatusRecordsOnlyForwarded ==
  pc = "ended" =>
    LET others == ReadOf(WithoutStatus,
                         {k \in 1..Len(WithoutStatus) : Unparsable(WithoutStatus[k])},
                         Len(WithoutStatus))
    IN  /\ rd.statusCalls =
             (IF hasStatusCb THEN StatusData(CompleteLines, Len(CompleteLines)) ELSE <<>>)
        /\ rd.fullText = others.fullText
        /\ rd.thoughtsCalls = others.thoughtsCalls

\* the stream held a status record and a token record: the status was
\* forwarded, the token was reported
C24_Witness ==
  /\ pc = "ended"
  /\ hasStatusCb
  /\ rd.statusCalls = <<JStr(<<"s">>)>>
  /\ Len(rd.thoughtsCalls) = 1
  /\ Len(CompleteLines) = 2

\* the stream held a status record and no callback for it was passed
C24_WitnessNoCallback ==
  /\ pc = "ended"
  /\ ~hasStatusCb
  /\ \E k \in 1..Len(CompleteLines) : IsStatus(CompleteLines[k])
  /\ rd.fullText # <<>>

\* C26: once reader.read() has reported the end of the body the call comes
\* to its outcome, a returned result or a thrown error; a read that fails,
\* also after chunks have been read, makes the call fail at once, with no
\* result, and the request is not issued a second time.
C26_TerminatesAndNeverRetries ==
  /\ (pc = "ended") ~> (pc \in {"done", "failed"})
  /\ [](fetches = 1)
  /\ [](err = "network" => (pc = "failed" /\ result = NoResult /\ NothingDerived))
  /\ [][(pc = "reading" /\ pc' = "failed") => (err' = "network" /\ UNCHANGED <<pos, rd>>)]_vars

\* a read has failed after chunks had been read and reported
C26_Witness ==
  /\ pc = "failed"
  /\ err = "network"
  /\ pos > 0
  /\ pos < Len(body)
  /\ rd.thoughtsCalls # <<>>

(***************************************************************************)
(* Claims about the marker-based generateWorkflowLocal, under SpecMarker   *)
(***************************************************************************)

\* how the marker-based call ends when the whole body comes in one chunk
MarkerInOneChunk == markerFinish(markerChunk(MarkerInit, markerBody))

\* C21: however the transport cuts the response text into chunks, the
\* marker-based call ends as it ends when the whole text comes in one chunk:
\* with the same thoughts, workflow and requirements, or with a failure.
C21_MarkerChunkingDoesNotChangeOutcome ==
  markerPc = "finished" =>
    /\ markerOut.ok = MarkerInOneChunk.ok
    /\ markerOut.result = MarkerInOneChunk.result

\* the text the step's chunk has added to fullText
AddedText == SubSeq(mk'.fullText, Len(mk.fullText) + 1, Len(mk'.fullText))

\* a step of the read loop
ChunkRead == markerPos' > markerPos

\* the text before the first marker, trimmed, without its first "THOUGHTS:",
\* trimmed again
ThoughtsBeforeMarker(t) == Trim(Replace(Trim(BeforeMarker(t)), THOUGHTS, <<>>))

\* C30 as stated: the one call onThoughtsUpdate gets when the marker is seen
\* carries the trimmed text before the marker.
C30_LatchReportsTextBeforeMarker ==
  [][ /\ mk.isJsonMode =>
           /\ mk'.isJsonMode
           /\ mk'.thoughtsCalls = mk.thoughtsCalls
           /\ mk'.thoughts = mk.thoughts
           /\ ChunkRead => mk'.jsonBuffer = mk.jsonBuffer \o AddedText
      /\ (ChunkRead /\ ~mk.isJsonMode /\ Includes(mk'.fullText, MARKER)) =>
           /\ mk'.isJsonMode
           /\ mk'.thoughtsCalls = Append(mk.thoughtsCalls, Trim(BeforeMarker(mk'.fullText)))
    ]_vars

\* C30: JSON mode is a latch.  The chunk that makes the accumulated text
\* hold the marker turns isJsonMode on and gives onThoughtsUpdate one call,
\* with the text before the first marker trimmed, its first "THOUGHTS:"
\* removed and trimmed again, which is also the thoughts value; from then on
\* isJsonMode stays on, onThoughtsUpdate is not called, thoughts does not
\* change, and each chunk is appended to jsonBuffer.
C30_JsonModeIsALatch ==
  [][ /\ mk.isJsonMode =>
           /\ mk'.isJsonMode
           /\ mk'.thoughtsCalls = mk.thoughtsCalls
           /\ mk'.thoughts = mk.thoughts
           /\ ChunkRead => mk'.jsonBuffer = mk.jsonBuffer \o AddedText
      /\ (ChunkRead /\ ~mk.isJsonMode /\ Includes(mk'.fullText, MARKER)) =>
           /\ mk'.isJsonMode
           /\ mk'.thoughts = ThoughtsBeforeMarker(mk'.fullText)
           /\ mk'.thoughtsCalls = Append(mk.thoughtsCalls, ThoughtsBeforeMarker(mk'.fullText))
    ]_vars

\* a call fed one byte per chunk has seen the marker after text that starts
\* with "THOUGHTS:", has read a payload into jsonBuffer after it and has ended
C30_Witness ==
  /\ markerPc = "finished"
  /\ markerCuts = "bytes"
  /\ mk.isJsonMode
  /\ StartsWithAt(mk.fullText, THOUGHTS, 0)
  /\ mk.thoughts = Reasoning
  /\ mk.thoughtsCalls[Len(mk.thoughtsCalls)] = Reasoning
  /\ Len(mk.thoughtsCalls) = Len(BeforeMarker(mk.fullText)) + Len(MARKER)
  /\ mk.jsonBuffer = LF \o GraphText

(***************************************************************************)
(* Claims about callWithRetry, under SpecRetry                             *)
(***************************************************************************)

\* a failure whose status is 500, 502, 503 or 504, or whose message holds
\* 'fetch failed', 'overloaded', 'Service Unavailable' or 'Internal Server
\* Error'
TransientSignature(e) ==
  /\ ~e.ok
  /\ \/ \E d \in {"0", "2", "3", "4"} : e.status = JNum(<<"5", "0", d>>)
     \/ /\ e.message.t = "str"
        /\ \E t \in {FETCH_FAILED, OVERLOADED, SERVICE_UNAVAILABLE,
                      INTERNAL_SERVER_ERROR} : Includes(e.message.s, t)

\* an attempt has ended, and this is how
Settled(e) == rtLast = e /\ e # NoAttempt

\* C27: the operation is invoked at most retries times; an attempt after the
\* first follows a failure with a transient signature; a failure without one
\* is thrown at once, as it is; the value of the first attempt that succeeds
\* is returned; the call does nothing after its return or throw; and when
\* attempts were made and the call throws, it throws the last attempt's error.
C27_RetriesAreBoundedAndSelective ==
  /\ [](rtInvoked <= rtRetries)
  /\ [][(rtInvoked' > rtInvoked /\ rtInvoked > 0) => TransientSignature(rtLast)]_vars
  /\ [](\A e \in Attempts :
          (Settled(e) /\ ~e.ok /\ ~TransientSignature(e))
            => (rtPc = "thrown" /\ rtOut = e))
  /\ [](\A e \in Attempts :
          (Settled(e) /\ e.ok) => (rtPc = "returned" /\ rtOut = e))
  /\ [][(rtPc \in {"returned", "thrown"}) => UNCHANGED retryVars]_vars
  /\ []((rtPc = "thrown" /\ rtInvoked > 0) => (rtOut = rtLast /\ ~rtLast.ok))
  /\ []((rtPc = "returned") => (rtInvoked > 0 /\ rtOut = rtLast /\ rtLast.ok))

\* every one of three attempts has failed with a transient signature that
\* only the message carries, and the last error is thrown
C27_Witness ==
  /\ rtPc = "thrown"
  /\ rtRetries = 3
  /\ rtInvoked = 3
  /\ rtI = 2
  /\ rtLast.status = JUndef
  /\ TransientSignature(rtLast)
  /\ rtOut = rtLast

(***************************************************************************)
(* Claims about executeWorkflow, under SpecExec                            *)
(***************************************************************************)

\* what JSON.parse gives for a message event: undefined for a binary event
\* and for a text that is no JSON
EventJson(event) ==
  IF event.isString /\ EventParse[event.data].ok THEN EventParse[event.data].v ELSE JUndef

\* the prompt_id a message carries, undefined when it carries none
PromptIdOfEvent(event) == Get(Get(EventJson(event), W_data), W_prompt_id)

\* the message is of the given type and carries the prompt id of the POST
Matching(event, type) ==
  Get(EventJson(event), W_type) = JStr(type) /\ PromptIdOfEvent(event) = exPromptId

\* the matching 'executing' message with node null
IsCompletion(event) ==
  Matching(event, W_executing) /\ Get(Get(EventJson(event), W_data), W_node) = JNull

\* output.images of a message, empty when it has no array of images
OutputImages(event) ==
  LET images == Get(Get(Get(EventJson(event), W_data), W_output), W_images)
  IN  IF images.t = "arr" THEN images.a ELSE <<>>

RECURSIVE ImagesBefore(_, _)
\* the concatenation, in arrival order, of the images of the matching
\* 'executed' messages among the first n events
ImagesBefore(events, n) ==
  IF n = 0 THEN <<>>
  ELSE ImagesBefore(events, n - 1)
         \o (IF Matching(events[n], W_executed) THEN OutputImages(events[n]) ELSE <<>>)

CallsOf(cb) == {j \in 1..Len(relay.calls) : relay.calls[j].cb = cb}

\* the POST has failed: no response, a response that is not ok, or an ok
\* response that gives an error or nothing to read a prompt id from
PostFailed(resp) ==
  \/ resp.kind = "TypeError"
  \/ /\ resp.kind = "response"
     /\ \/ resp.status \notin 200..299
        \/ ~BodyParse[resp.body].ok
        \/ BodyParse[resp.body].v = JNull
        \/ Truthy(Get(BodyParse[resp.body].v, W_error))

\* C28: a message whose prompt_id differs from the one the POST returned
\* triggers neither callback and adds no image; what onComplete is given is
\* the images of the matching 'executed' messages that came before the
\* matching 'executing' message with node null, in arrival order; after a
\* failed POST, onError has been called once, no WebSocket has been opened
\* and onComplete is not called.
C28_RelayFollowsOnlyItsPrompt ==
  /\ [][(exEvents' # exEvents
          /\ PromptIdOfEvent(exEvents'[Len(exEvents')]) # exPromptId)
         => (relay'.calls = relay.calls /\ relay'.images = relay.images)]_vars
  /\ [](\A j \in CallsOf("onComplete") :
          /\ exEvents # <<>>
          /\ IsCompletion(exEvents[Len(exEvents)])
          /\ \A n \in 1..(Len(exEvents) - 1) : ~IsCompletion(exEvents[n])
          /\ relay.calls[j].images = ImagesBefore(exEvents, Len(exEvents) - 1))
  /\ []((exEvents # <<>> /\ IsCompletion(exEvents[Len(exEvents)]))
          => Cardinality(CallsOf("onComplete")) = 1)
  /\ [](PostFailed(exResponse)
          => /\ Cardinality(CallsOf("onError")) = 1
             /\ CallsOf("onComplete") = {}
             /\ exSockets = 0
             /\ exEvents = <<>>)
  /\ [][PostFailed(exResponse) => UNCHANGED execVars]_vars

\* images of another prompt have been dropped, two images of this prompt
\* have been collected, and the end of the execution has handed them over
C28_Witness ==
  /\ Len(exEvents) = 3
  /\ Matching(exEvents[1], W_executed) /\ Len(OutputImages(exEvents[1])) = 2
  /\ PromptIdOfEvent(exEvents[2]) = JStr(OtherPID) /\ OutputImages(exEvents[2]) # <<>>
  /\ IsCompletion(exEvents[3])
  /\ relay.calls[Len(relay.calls)] = CompleteCall(OutputImages(exEvents[1]))

\* after a failed POST: one onError, no WebSocket
C28_WitnessPostFailed ==
  /\ PostFailed(exResponse)
  /\ exResponse.kind = "response"
  /\ exResponse.status = 200
  /\ exPc = "returned"
  /\ Cardinality(CallsOf("onError")) = 1

\* a response that is not ok and whose body is JSON with error and node_errors
HasNodeErrors(resp) ==
  /\ resp.kind = "response"
  /\ resp.status \notin 200..299
  /\ BodyParse[resp.body].ok
  /\ Truthy(Get(BodyParse[resp.body].v, W_error))
  /\ Truthy(Get(BodyParse[resp.body].v, W_node_errors))

\* the message names the node k of class c and each of its messages
ListsNode(line, k, v) ==
  /\ Includes(line, <<"Node ">> \o k \o <<" (">> \o Get(v, W_class_type).s \o <<"): ">>)
  /\ \A j \in 1..Len(Get(v, W_errors).a) :
       Includes(line, Get(Get(v, W_errors).a[j], W_message).s)

\* C29: after a response that is not ok and whose body is JSON with error
\* and node_errors, onError is given the 'ComfyUI Validation Error' that
\* lists each failing node with its id, its class_type and its messages.
C29_NodeErrorsReachOnError ==
  HasNodeErrors(exResponse)
    => \E j \in CallsOf("onError") :
         /\ relay.calls[j].message[1] = "ComfyUI Validation Error:"
         /\ \A p \in Get(BodyParse[exResponse.body].v, W_node_errors).o :
              p[2].t = "obj" => ListsNode(relay.calls[j].message, p[1], p[2])

\* what onError is given instead: the generic error with the status and the
\* raw body, while the validation error has been built and dropped
C29_GenericErrorInstead ==
  (HasNodeErrors(exResponse) /\ exCaught.name = "Error")
    => /\ exCaught.message[1] = "ComfyUI Validation Error:"
       /\ relay.calls[Len(relay.calls)]
            = ErrorCall(JsError("Error", <<"ComfyUI API error (">>
                   \o Decimal(exResponse.status) \o <<"):", "\n">> \o exResponse.body))

====
